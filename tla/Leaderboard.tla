----------------------------- MODULE Leaderboard -----------------------------
(***************************************************************************)
(* services/leaderboard_service.py over the sorted-set operations of       *)
(* services/cache_service.py: one leaderboard in Redis.  Every Redis       *)
(* command is atomic; an operation made of several commands is as many     *)
(* steps.                                                                  *)
(***************************************************************************)
EXTENDS Integers, FiniteSets, Functions

CONSTANTS
    Players,     \* members, ordered as Redis orders equal scores
    LbCalls,     \* requests that may overlap
    ScoreDeltas, \* the increments asked for
    MaxScore     \* a bound on the scores

ASSUME LeaderboardAssumption ==
    Players \subseteq Nat /\ ScoreDeltas \subseteq Int /\ MaxScore \in Nat

VARIABLES
    scores,      \* the ZSET: player -> score
    lbPc,        \* per request: where it is
    standing,    \* per request: the player, and the score, rank and total read so far
    recordedScores,    \* per player: the increments Redis acknowledged since the player last joined
    evictedSince \* per request: somebody was removed since its first command
boardVars == <<scores, lbPc, standing, recordedScores, evictedSince>>

NoStanding == [player |-> 0, score |-> 0, rank |-> 0, total |-> 0]

BoardInit ==
    /\ scores = <<>>
    /\ lbPc = [c \in LbCalls |-> "idle"]
    /\ standing = [c \in LbCalls |-> NoStanding]
    /\ recordedScores = [p \in Players |-> 0]
    /\ evictedSince = [c \in LbCalls |-> FALSE]

LbGo(c, pc) == lbPc' = [lbPc EXCEPT ![c] = pc]

(* ZREVRANK: how many stand before the player, from the highest score. *)
ZRevRank(p) ==
    Cardinality({q \in DOMAIN scores : \/ scores[q] > scores[p]
                                       \/ scores[q] = scores[p] /\ q > p})

(* ZINCRBY: a player who is not there joins with a score of 0. *)
ZIncrBy(p, delta) ==
    scores' = [q \in DOMAIN scores \cup {p} |->
                 IF q # p THEN scores[q]
                 ELSE IF p \in DOMAIN scores THEN scores[p] + delta ELSE delta]

(* record_score and its route: ZINCRBY ... *)
RecordScore(c) ==
    \E p \in Players, delta \in ScoreDeltas :
        /\ lbPc[c] = "idle"
        /\ recordedScores[p] + delta \in -MaxScore .. MaxScore
        /\ ZIncrBy(p, delta)
        /\ recordedScores' = [recordedScores EXCEPT ![p] = @ + delta]
        /\ standing' = [standing EXCEPT ![c] = [NoStanding EXCEPT !.player = p]]
        /\ LbGo(c, "ranking")
        /\ UNCHANGED evictedSince

(* ... and ZREVRANK; a player removed meanwhile is answered rank 1. *)
RankAfterRecord(c) ==
    /\ lbPc[c] = "ranking"
    /\ standing' = [standing EXCEPT ![c] = NoStanding]
    /\ LbGo(c, "idle")
    /\ UNCHANGED <<scores, recordedScores, evictedSince>>

(* get_player_standing and its route: ZSCORE, 404 when there is none ... *)
GetPlayerStanding(c) ==
    \E p \in Players :
        /\ lbPc[c] = "idle"
        /\ p \in DOMAIN scores
        /\ standing' = [standing EXCEPT ![c] =
              [NoStanding EXCEPT !.player = p, !.score = scores[p]]]
        /\ LbGo(c, "rank")
        /\ UNCHANGED <<scores, recordedScores, evictedSince>>

(* Mutation of ReadRank: the rank is counted from one twice. *)
MutReadRank(c) ==
    LET p == standing[c].player
    IN  /\ lbPc[c] = "rank"
        /\ IF p \in DOMAIN scores
           THEN /\ standing' = [standing EXCEPT ![c].rank = ZRevRank(p) + 2]
                /\ LbGo(c, "total")
                /\ UNCHANGED evictedSince
           ELSE /\ standing' = [standing EXCEPT ![c] = NoStanding]
                /\ evictedSince' = [evictedSince EXCEPT ![c] = FALSE]
                /\ LbGo(c, "idle")
        /\ UNCHANGED <<scores, recordedScores>>

(* ... ZREVRANK, 404 when the player left since ... *)
ReadRank(c) ==
    LET p == standing[c].player
    IN  /\ lbPc[c] = "rank"
        /\ IF p \in DOMAIN scores
           THEN /\ standing' = [standing EXCEPT ![c].rank = ZRevRank(p) + 1]
                /\ LbGo(c, "total")
                /\ UNCHANGED evictedSince
           ELSE /\ standing' = [standing EXCEPT ![c] = NoStanding]
                /\ evictedSince' = [evictedSince EXCEPT ![c] = FALSE]
                /\ LbGo(c, "idle")
        /\ UNCHANGED <<scores, recordedScores>>

(* ... and ZCARD, of which rank and percentile are answered. *)
ReadTotal(c) ==
    /\ lbPc[c] = "total"
    /\ standing' = [standing EXCEPT ![c].total = Cardinality(DOMAIN scores)]
    /\ LbGo(c, "answered")
    /\ UNCHANGED <<scores, recordedScores, evictedSince>>

EndStanding(c) ==
    /\ lbPc[c] = "answered"
    /\ standing' = [standing EXCEPT ![c] = NoStanding]
    /\ LbGo(c, "idle")
    /\ evictedSince' = [evictedSince EXCEPT ![c] = FALSE]
    /\ UNCHANGED <<scores, recordedScores>>

Evict(gone) ==
    /\ scores' = Restrict(scores, DOMAIN scores \ gone)
    /\ recordedScores' = [p \in Players |-> IF p \in gone THEN 0 ELSE recordedScores[p]]
    /\ evictedSince' = [c \in LbCalls |-> evictedSince[c] \/ lbPc[c] \in {"rank", "total"}]
    /\ UNCHANGED <<lbPc, standing>>

(* remove_player: ZREM, and clear_leaderboard: DEL.  No route calls them;   *)
(* a maintenance job may.                                                  *)
RemovePlayer == \E p \in DOMAIN scores : Evict({p})
ClearLeaderboard == DOMAIN scores # {} /\ Evict(DOMAIN scores)

BoardNext ==
    \/ \E c \in LbCalls : \/ RecordScore(c) \/ RankAfterRecord(c)
                          \/ GetPlayerStanding(c) \/ ReadRank(c) \/ ReadTotal(c)
                          \/ EndStanding(c)
    \/ RemovePlayer
    \/ ClearLeaderboard
BoardSpec == BoardInit /\ [][BoardNext]_boardVars

-----------------------------------------------------------------------------
(* No increment is lost between requests: a player's score is the sum of    *)
(* what was recorded since they joined (leaderboard_service.py:28-43).      *)
ScoresAddUp == \A p \in DOMAIN scores : scores[p] = recordedScores[p]

(* The answer of get_player_standing passes its own response model, rank in *)
(* 1 .. total_players and so a percentile of at least 0                     *)
(* (schemas/leaderboard.py:46-52), although rank and total come from two    *)
(* commands: others joining in between can only raise the total.  A removal *)
(* in between is the one thing that can break it.                          *)
StandingInRange ==
    \A c \in LbCalls : lbPc[c] = "answered" =>
       \/ evictedSince[c]
       \/ standing[c].rank \in 1 .. standing[c].total

(* What the board tells is what was recorded: scores add up, and a         *)
(* standing is one the board can have.                                     *)
BoardTellsScores == ScoresAddUp /\ StandingInRange
=============================================================================
