----------------------------- MODULE CardRanking -----------------------------
(***************************************************************************)
(* What three cards are worth (games/teen_patti_pro/engine.py and          *)
(* table.py): the hand categories, the wild jokers, the lookup table, and   *)
(* how calculate_result uses them to choose the winners among the seats     *)
(* somebody staked on.                                                      *)
(***************************************************************************)
EXTENDS Integers, Sequences, FiniteSets, SequencesExt

CONSTANTS
  Ranks,      \* bound: the ranks of the deck, in increasing order
  SeatsDealt, \* the seats
  Deals,      \* bound: the hands a seat may be dealt: [plain, jokers]
  Orders      \* bound: ranking orders, weakest category first

ASSUME RankingAssumption ==
  /\ Ranks \in Seq(2..14) /\ Last(Ranks) = 14 /\ \A i \in 2..Len(Ranks) : Ranks[i - 1] < Ranks[i]
  /\ \A d \in Deals : Cardinality(d.plain) + d.jokers = 3

VARIABLES crHands, crMode, crOrder, crStaked, crResolved, crWinners, crAt
crVars == <<crHands, crMode, crOrder, crStaked, crResolved, crWinners, crAt>>

Suits == <<"S", "H", "D", "C">>
\* build_deck: rank by rank within the search of best_expansion.
DeckInOrder == [i \in 1..(4 * Len(Ranks)) |-> <<Ranks[((i - 1) \div 4) + 1], Suits[((i - 1) % 4) + 1]>>]
Deck == ToSet(DeckInOrder)
HandCategories == <<"high", "pair", "color", "seq", "pure_seq", "trail">>
AceModes == {"lowest", "second", "highest"}

RanksOf(hand) == {card[1] : card \in hand}
\* The ranks of a hand from the highest down, repeated ranks repeated.
Descending(hand) == [i \in 1..3 |->
  CHOOSE r \in RanksOf(hand) : /\ Cardinality({c \in hand : c[1] > r}) < i
                               /\ Cardinality({c \in hand : c[1] >= r}) >= i]

\* _is_sequence on descending ranks, and where it puts A-2-3.
AceLow == <<14, 3, 2>>
IsRun(d) == d = AceLow \/ (d[1] - d[3] = 2 /\ d[1] - d[2] = 1)
RunTiebreak(d, mode) ==
  IF d # AceLow THEN d ELSE CASE mode = "highest" -> <<15>> [] mode = "second" -> AceLow [] OTHER -> <<3>>

Category(d, flush) ==
  CASE d[1] = d[3] -> "trail"
    [] flush /\ IsRun(d) -> "pure_seq"
    [] ~flush /\ IsRun(d) -> "seq"
    [] flush /\ ~IsRun(d) -> "color"
    [] ~flush /\ d[1] # d[3] /\ (d[1] = d[2] \/ d[2] = d[3]) -> "pair"
    [] OTHER -> "high"

Tiebreak(d, category, mode) ==
  CASE category = "trail" -> <<d[1]>>
    [] category \in {"seq", "pure_seq"} -> RunTiebreak(d, mode)
    [] category = "pair" -> IF d[1] = d[2] THEN <<d[1], d[3]>> ELSE <<d[3], d[1]>>
    [] OTHER -> d

\* rank_scale, then the tiebreak; an order without the category raises in the code.
Evaluate(hand, mode, order) ==
  LET d == Descending(hand)
      category == Category(d, Cardinality({card[2] : card \in hand}) = 1)
  IN <<CHOOSE i \in 1..Len(order) : order[i] = category>> \o Tiebreak(d, category, mode)

\* Python's order of tuples.
Beats(a, b) ==
  \/ \E i \in 1..Len(a) : i <= Len(b) /\ a[i] > b[i] /\ SubSeq(a, 1, i - 1) = SubSeq(b, 1, i - 1)
  \/ Len(a) > Len(b) /\ SubSeq(a, 1, Len(b)) = b

(***************************************************************************)
(* best_expansion.                                                          *)
(***************************************************************************)
\* One joker: every card not in the hand, in deck order; a later one must be better.
OneJoker(plain, mode, order) ==
  LET try(tried, card) ==
        LET key == Evaluate(plain \cup {card}, mode, order)
        IN IF card \notin plain /\ Beats(key, tried.key) THEN [card |-> card, key |-> key] ELSE tried
  IN plain \cup {FoldLeft(try, [card |-> <<>>, key |-> <<>>], DeckInOrder).card}

\* Two jokers: the dealt card's rank in the first two other suits.
TwoJokers(plain) ==
  LET card == CHOOSE x \in plain : TRUE
      others == SelectSeq(Suits, LAMBDA s : s # card[2])
  IN plain \cup {<<card[1], others[1]>>, <<card[1], others[2]>>}

ThreeJokers == {<<14, "S">>, <<14, "H">>, <<14, "D">>}

BestExpansion(deal, mode, order) ==
  CASE deal.jokers = 0 -> deal.plain
    [] deal.jokers = 1 -> OneJoker(deal.plain, mode, order)
    [] deal.jokers = 2 -> TwoJokers(deal.plain)
    [] OTHER -> ThreeJokers

\* table.build: every plain hand under the default order, in every mode.
Triples == {hand \in {{a, b, c} : a, b, c \in Deck} : Cardinality(hand) = 3}
Table == [mode \in AceModes |-> [hand \in Triples |-> Evaluate(hand, mode, HandCategories)]]

\* score_hand: jokers are resolved first; only the default order may use the table.
ScoreHand(deal, mode, order) ==
  IF deal.jokers = 0 /\ order = HandCategories THEN Table[mode][deal.plain]
  ELSE Evaluate(BestExpansion(deal, mode, order), mode, order)

(***************************************************************************)
(* calculate_result: the jokers are resolved without the ranking order.     *)
(***************************************************************************)
CrInit ==
  /\ crHands = <<>> /\ crMode = "highest" /\ crOrder = HandCategories /\ crStaked = {}
  /\ crResolved = <<>> /\ crWinners = {} /\ crAt = "waiting"

\* The round is dealt from one deck, under the configuration in force, and staked on.
Deal ==
  /\ crAt = "waiting"
  /\ crHands' \in {h \in [SeatsDealt -> Deals] :
       \A s, t \in SeatsDealt : s # t => h[s].plain \cap h[t].plain = {} /\ h[s].jokers + h[t].jokers <= 3}
  /\ crMode' \in AceModes /\ crOrder' \in Orders
  /\ crStaked' \in SUBSET SeatsDealt
  /\ crAt' = "dealt"
  /\ UNCHANGED <<crResolved, crWinners>>

Resolved(deal) == BestExpansion(deal, crMode, HandCategories)

WinnersAmongAll(resolved) ==
  LET score(s) == Evaluate(resolved[s], crMode, crOrder)
  IN {s \in SeatsDealt : \A t \in SeatsDealt : ~Beats(score(t), score(s))}

\* Only seats with a stake are candidates.
WinnersOf(resolved) ==
  LET score(s) == Evaluate(resolved[s], crMode, crOrder)
  IN {s \in crStaked : \A t \in crStaked : ~Beats(score(t), score(s))}

CalculateResult ==
  /\ crAt = "dealt"
  /\ crResolved' \in {[s \in SeatsDealt |-> Resolved(crHands[s])]}
  /\ crWinners' = WinnersOf(crResolved')
  /\ crAt' = "result"
  /\ UNCHANGED <<crHands, crMode, crOrder, crStaked>>

CrNext == Deal \/ CalculateResult

(***************************************************************************)
(* Properties.                                                              *)
(***************************************************************************)
CrTypeOK == crAt \in {"waiting", "dealt", "result"} /\ crWinners \subseteq SeatsDealt

Completions(deal) == {hand \in Triples : deal.plain \subseteq hand}
Optimal(s, order) ==
  LET score == Evaluate(crResolved[s], crMode, order)
      worth(full) == IF order = HandCategories THEN Table[crMode][full] ELSE Evaluate(full, crMode, order)
  IN \A full \in Completions(crHands[s]) : ~Beats(worth(full), score)

\* A resolved hand keeps the cards dealt, is three different cards of the deck, and under the
\* default order no other choice for the jokers is worth more: the shortcuts for two and three
\* jokers agree with the search.
JokersBest ==
  crAt = "result" => \A s \in SeatsDealt :
    /\ crHands[s].plain \subseteq crResolved[s] /\ crResolved[s] \subseteq Deck
    /\ Cardinality(crResolved[s]) = 3
    /\ crOrder = HandCategories => Optimal(s, crOrder)
\* The same under every order an operator may set, which the code does not keep.
JokersBestAnyOrder == crAt = "result" => \A s \in SeatsDealt : Optimal(s, crOrder)

\* Somebody wins whenever somebody staked, only seats with a stake win, and under the default
\* order no staked hand's authoritative score (score_hand) beats a winner's.
WinnersBest ==
  crAt = "result" =>
    /\ crWinners \subseteq crStaked /\ (crStaked # {} => crWinners # {})
    /\ crOrder = HandCategories => \A w \in crWinners, s \in crStaked :
         ~Beats(ScoreHand(crHands[s], crMode, crOrder), ScoreHand(crHands[w], crMode, crOrder))

Runs == {<<r, r - 1, r - 2>> : r \in {x \in ToSet(Ranks) : {x - 1, x - 2} \subseteq ToSet(Ranks)}}

\* A-2-3 is the lowest run, the second, or the highest, as the mode says.
AceRunPlaced ==
  \A s \in SeatsDealt :
    (crAt = "result" /\ Descending(crResolved[s]) = AceLow) =>
      \A run \in Runs :
        LET above == Beats(RunTiebreak(AceLow, crMode), RunTiebreak(run, crMode))
        IN CASE crMode = "lowest" -> ~above
             [] crMode = "second" -> above <=> run # <<14, 13, 12>>
             [] crMode = "highest" -> above

\* What the ranking promises a round.
RankingSound == JokersBest /\ WinnersBest /\ AceRunPlaced
==============================================================================
