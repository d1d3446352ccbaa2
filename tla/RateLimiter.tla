------------------------------ MODULE RateLimiter ------------------------------
(***************************************************************************)
(* The executor's host-wide blast-rate limiter                             *)
(* (crates/archangel-execd/src/ratelimit.rs): three sliding windows of     *)
(* admission times.  An action is admitted only if every window its class  *)
(* selects has room, and is recorded in all of them or in none.            *)
(***************************************************************************)
EXTENDS Integers, Sequences, FiniteSets

CONSTANTS
  MINUTE,    \* 60 s, in ticks of the model's clock
  HOUR,      \* 3600 s, in ticks of the model's clock
  Limit,     \* RateLimits: [Window -> Nat], the configured ceilings
  MaxTime    \* bound of the model on the monotonic clock

Window == {"total", "mutating", "critical"}
Horizon == [w \in Window |-> IF w = "critical" THEN HOUR ELSE MINUTE]

ASSUME HorizonAssumption == MINUTE \in Nat \ {0} /\ HOUR \in Nat \ {0}
ASSUME LimitAssumption == Limit \in [Window -> Nat]
ASSUME MaxTimeAssumption == MaxTime \in Nat

VARIABLES
  now,       \* Instant::now()
  hits,      \* hits[w]: the VecDeque of admission times of window w
  verdict,   \* what the last try_admit at this instant returned
  charged    \* history: charged[w], every admission counted by w since boot

windows == <<hits, verdict>>
RateVars == <<now, hits, verdict, charged>>

ActionClass == [mutating : BOOLEAN, critical : BOOLEAN]
RateRejection == [total |-> "TotalPerMinute", mutating |-> "MutatingPerMinute",
                  critical |-> "CriticalPerHour"]

RateInit ==
  /\ now = 0
  /\ hits = [w \in Window |-> <<>>]
  /\ verdict = "none"
  /\ charged = [w \in Window |-> <<>>]

-----------------------------------------------------------------------------
(* Window::prune: admissions leave at the front while they are at least a  *)
(* horizon old; the first younger one stops the loop.                      *)
PruneDropsEarly(w) ==
  LET young == {i \in DOMAIN hits[w] : now - hits[w][i] < Horizon[w] - 1}
  IN  IF young = {} THEN <<>>
      ELSE SubSeq(hits[w], CHOOSE i \in young : \A j \in young : i <= j, Len(hits[w]))
prune(w) ==
  LET young == {i \in DOMAIN hits[w] : now - hits[w][i] < Horizon[w]}
  IN  IF young = {} THEN <<>>
      ELSE SubSeq(hits[w], CHOOSE i \in young : \A j \in young : i <= j, Len(hits[w]))

is_full(w) == Len(prune(w)) >= Limit[w]

(* The windows a class selects, and the order try_admit asks them in. *)
Applies(class) ==
  {"total"} \union (IF class.mutating THEN {"mutating"} ELSE {})
            \union (IF class.critical THEN {"critical"} ELSE {})
Rank == [total |-> 1, mutating |-> 2, critical |-> 3]

(* try_admit stops at the first full window; the ones it reached, that one *)
(* included, have been pruned.                                             *)
Asked(class) ==
  {w \in Applies(class) : \A v \in Applies(class) : Rank[v] < Rank[w] => ~is_full(v)}
Admissible(class) == \A w \in Applies(class) : ~is_full(w)

(* The windows after an admission and after a refusal. *)
Recorded(class) ==
  [w \in Window |-> IF w \in Applies(class) THEN Append(prune(w), now) ELSE hits[w]]
PrunedAndCharged(class) ==
  [w \in Window |-> IF w \in Asked(class)
                      THEN IF is_full(w) THEN prune(w) ELSE Append(prune(w), now)
                      ELSE hits[w]]
Pruned(class) ==
  [w \in Window |-> IF w \in Asked(class) THEN prune(w) ELSE hits[w]]

Admit(class) ==
  /\ Admissible(class)
  /\ hits' = Recorded(class)
  /\ verdict' = "admitted"
  /\ charged' = [w \in Window |-> IF w \in Applies(class) THEN Append(charged[w], now)
                                                           ELSE charged[w]]

Shed(class) ==
  /\ \E w \in Asked(class) :
       /\ is_full(w)
       /\ verdict' = RateRejection[w]
  /\ hits' = Pruned(class)
  /\ UNCHANGED charged

try_admit(class) == (Admit(class) \/ Shed(class)) /\ UNCHANGED now

(* Time passes between calls. *)
Tick ==
  /\ now < MaxTime
  /\ now' = now + 1
  /\ verdict' = "none"
  /\ UNCHANGED <<hits, charged>>

RateNext == Tick \/ \E class \in ActionClass : try_admit(class)
RateSpec == RateInit /\ [][RateNext]_RateVars

-----------------------------------------------------------------------------
(* Shape of the limiter; a window never holds more entries than its limit. *)
RateTypeOK ==
  /\ now \in 0 .. MaxTime
  /\ hits \in [Window -> Seq(0 .. MaxTime)]
  /\ \A w \in Window : Len(hits[w]) <= Limit[w]
  /\ verdict \in {"none", "admitted", "TotalPerMinute", "MutatingPerMinute", "CriticalPerHour"}
  /\ charged \in [Window -> Seq(0 .. MaxTime)]

(* The ceiling itself, over the whole history of the process: any Limit+1  *)
(* successive admissions of a class span at least its horizon.  With limit *)
(* 0 it says that nothing is ever admitted (fail-closed).                  *)
BlastRate ==
  \A w \in Window : \A i \in 1 .. Len(charged[w]) :
    i + Limit[w] <= Len(charged[w])
      => charged[w][i + Limit[w]] - charged[w][i] >= Horizon[w]

(* No action is shed without need: when a ceiling is reported, that many   *)
(* actions of its class really were admitted within the last horizon.      *)
(* Together with BlastRate the windows count exactly; in particular a shed *)
(* action has consumed no budget of any window.                            *)
ShedOnlyAtCeiling ==
  \A w \in Window :
    verdict = RateRejection[w]
      => Cardinality({i \in DOMAIN charged[w] : now - charged[w][i] < Horizon[w]})
           >= Limit[w]

(* What makes BlastRate inductive: a window is the tail of its admission   *)
(* history and everything it has dropped is a horizon old.                 *)
Dropped(w) == Len(charged[w]) - Len(hits[w])
WindowIsRecentHistory ==
  \A w \in Window :
    /\ Dropped(w) >= 0
    /\ \A k \in DOMAIN hits[w] : hits[w][k] = charged[w][Dropped(w) + k]
    /\ \A i \in 1 .. Dropped(w) : now - charged[w][i] >= Horizon[w]
HistoryOrdered ==
  \A w \in Window :
    /\ \A i \in DOMAIN charged[w] : charged[w][i] <= now
    /\ \A i, j \in DOMAIN charged[w] : i <= j => charged[w][i] <= charged[w][j]

RateIInv ==
  /\ RateTypeOK
  /\ WindowIsRecentHistory
  /\ HistoryOrdered
  /\ BlastRate
=============================================================================
