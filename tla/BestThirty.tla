----------------------------- MODULE BestThirty -----------------------------
(***************************************************************************)
(* The b30 card of extensions/b30: collect_all_levels and compute_b30 of    *)
(* utils.rs choose the plays, handle_b30_extension_get puts the first APs   *)
(* and the best plays one after the other, build_b30_cards labels them and  *)
(* into_card_data fills up with empty cards.  The input is the game record  *)
(* of the save, which grows as the player plays.                            *)
(*                                                                          *)
(* An accuracy is a whole percentage and a play's rks is 45 * 45 times the  *)
(* one of single_rks, so that all numbers are integers: rounding and NaN of *)
(* f32 are left out.  Names, pictures and layout are left out.              *)
(***************************************************************************)
EXTENDS Integers, SequencesExt

CONSTANTS
  None,       \* no record of a level, an empty card
  Songs,      \* the songs of a record, in its order: a sequence of ids
  Kinds,      \* the difficulties of a song, AT first: a sequence
  Charts,     \* song_map: song -> kind -> difficulty, 0 where there is none
  Accuracies, \* accuracies a play may reach
  ApCount,    \* 3 in the code
  BestCount,  \* 27 in the code
  Total       \* 30 in the code

ASSUME BestThirtyAssumption ==
  /\ Songs \in Seq(ToSet(Songs))
  /\ Kinds \in Seq(ToSet(Kinds))
  /\ \A s \in DOMAIN Charts : Charts[s] \in [ToSet(Kinds) -> Nat]
  /\ Accuracies \subseteq 0 .. 100
  /\ None \notin [acc : 0 .. 100, ap : BOOLEAN]
  /\ ApCount \in Nat \ {0} /\ BestCount \in Nat /\ Total = ApCount + BestCount

VARIABLE record   \* song -> kind -> its LevelRecord, None if not played

(* `ap': the score is 1000000.                                              *)
Level == {[acc |-> a, ap |-> FALSE] : a \in Accuracies} \cup {[acc |-> 100, ap |-> TRUE]}

-----------------------------------------------------------------------------
single_rks(level, difficulty) == (level.acc - 55) * (level.acc - 55) * difficulty

(* Mutant: no accuracy is too low.                                          *)
CountsAnyAccuracy(song, kind) ==
  /\ record[song][kind] # None
  /\ song \in DOMAIN Charts
  /\ Charts[song][kind] # 0

(* Played, accurate enough, and known to the song list.                     *)
Counts(song, kind) ==
  /\ record[song][kind] # None
  /\ record[song][kind].acc >= 70
  /\ song \in DOMAIN Charts
  /\ Charts[song][kind] # 0

PlayOf(i, j) ==
  LET level == record[Songs[i]][Kinds[j]]
  IN [at |-> <<i, j>>, ap |-> level.ap, rks |-> single_rks(level, Charts[Songs[i]][Kinds[j]])]

(* collect_all_levels of every song, each play with its place in the order. *)
Collected ==
  {PlayOf(at[1], at[2]) :
     at \in {ij \in (DOMAIN Songs) \X (DOMAIN Kinds) : Counts(Songs[ij[1]], Kinds[ij[2]])}}

Before(at, bt) == at[1] < bt[1] \/ (at[1] = bt[1] /\ at[2] < bt[2])

(* sort_by on rks, highest first; equal plays keep their order.             *)
AllPlays ==
  LET plays == Collected
      Ahead(play) ==
        {other \in plays : \/ other.rks > play.rks
                           \/ other.rks = play.rks /\ Before(other.at, play.at)}
  IN [i \in 1 .. Cardinality(plays) |->
        CHOOSE play \in plays : Cardinality(Ahead(play)) = i - 1]

SumOf(plays) == MapThenSumSet(LAMBDA i : plays[i].rks, DOMAIN plays)

FirstOf(plays, n) == SubSeq(plays, 1, IF Len(plays) < n THEN Len(plays) ELSE n)

(* Mutant: the APs are looked for among the best plays only.                *)
ApsOfBest ==
  FirstOf(SelectSeq(FirstOf(AllPlays, BestCount), LAMBDA play : play.ap), ApCount)

(* The loop over all plays that stops at the third AP.                      *)
p3 ==
  FoldLeft(LAMBDA taken, play :
             IF play.ap /\ Len(taken) < ApCount THEN Append(taken, play) ELSE taken,
           <<>>, AllPlays)

b27 == FirstOf(AllPlays, BestCount)

(* Mutant: the sum runs over the cards, an AP among the best twice.         *)
TotalOfCards == SumOf(p3 \o b27)

(* total_rks before its division by 30.                                     *)
TotalRks == SumOf(FirstOf(AllPlays, Total))

(* index_str: by position.                                                  *)
LabelAt(i) == IF i <= ApCount THEN <<"P", i>> ELSE <<"B", i - ApCount>>

(* The APs, then the best plays; one play may be in both.                   *)
all_30 == p3 \o b27

Cards ==
  [i \in 1 .. Total |->
     IF i <= Len(all_30) THEN [label |-> LabelAt(i), play |-> all_30[i]] ELSE None]

-----------------------------------------------------------------------------
Init == record = [song \in ToSet(Songs) |-> [kind \in ToSet(Kinds) |-> None]]

(* The game keeps a level's best play.                                      *)
Better(old) ==
  {level \in Level :
     \/ old = None
     \/ level.acc > old.acc
     \/ level.acc = old.acc /\ level.ap /\ ~old.ap}

Improve(song, kind) ==
  \E level \in Better(record[song][kind]) :
    record' = [record EXCEPT ![song][kind] = level]

Next == \E song \in ToSet(Songs), kind \in ToSet(Kinds) : Improve(song, kind)

Spec == Init /\ [][Next]_record

-----------------------------------------------------------------------------
(* The total is the largest sum any 30 plays of the record reach, each play *)
(* counted once even where it has two cards.  (compute_b30's total_rks.)    *)
TotalIsBestSum ==
  TotalRks = Max({MapThenSumSet(LAMBDA play : play.rks, chosen) :
                    chosen \in {S \in SUBSET Collected : Cardinality(S) <= Total}})

(* The APs shown are the best APs of the whole record, as many as there     *)
(* are up to three, wherever they rank among all plays.  (compute_b30's p3, *)
(* which stops at the third AP it meets.)                                   *)
ApCardsAreTheBestAps ==
  LET aps == {play \in Collected : play.ap}
      shown == ToSet(p3)
  IN /\ Len(p3) = Min({ApCount, Cardinality(aps)})
     /\ Cardinality(shown) = Len(p3)
     /\ shown \subseteq aps
     /\ \A play \in shown, other \in aps \ shown : play.rks >= other.rks

(* Playing better never costs rks, although the square in single_rks grows  *)
(* again below 55 percent and a play can push another out of the thirty.    *)
(* (The accuracy threshold in collect_all_levels.)                          *)
RksNeverDrops == [][TotalRks' >= TotalRks]_record

(* A card labelled P shows one of the first three APs: what handler.rs:77   *)
(* and the comment in compute_b30 say p3 is.                                *)
LabelledApsAreAps ==
  \A i \in 1 .. Total :
    Cards[i] # None => (Cards[i].label[1] = "P" => Cards[i].play.ap)
=============================================================================
