---------------------------- MODULE LeaderElection ----------------------------
(***************************************************************************)
(* Leader and followers among several main processes (MultiMainSetup): the *)
(* leader is the main whose host id is the value of one key in Redis.      *)
(*                                                                         *)
(*   key    the key in Redis: whose id it holds, and if it can expire      *)
(*   up     the main process                                               *)
(*   check  MultiMainSetup: the check under way, between two commands      *)
(*   role   InstanceSettings.instanceRole                                  *)
(*                                                                         *)
(* A command is executed by Redis in one step with the handling of its     *)
(* reply.  The check of a main is over before its next one begins: it is   *)
(* three commands at most, and checks are seconds apart.  The id of a main *)
(* is drawn when its process starts, so the key of a process that has      *)
(* ended holds an id that nobody has any more (Gone).                      *)
(*                                                                         *)
(* A definition named Slip... is a plausible mistake in the definition     *)
(* after it; no specification uses it.                                     *)
(***************************************************************************)
EXTENDS Naturals

CONSTANTS
  Mains,     \* main processes
  None,      \* no key
  Gone,      \* the id of a process that has ended
  MaxFaults  \* bound: crashes, shutdowns, renewals that come too late

ASSUME ElectionAssumption ==
  /\ None \notin Mains /\ Gone \notin Mains /\ None # Gone
  /\ MaxFaults \in Nat

VARIABLES
  key,    \* [holder, ttl]: the leader key, and whether it has a time to live
  up,     \* [Mains -> "off", "init", "up", "leaving"]
  check,  \* [Mains -> "idle", "renew", "claim", "won"]
  role,   \* [Mains -> "unset", "leader", "follower"]
  late,   \* the key of a main that was up has expired (history)
  faults

electionVars == <<key, up, check, role, late, faults>>

IsLeader(m) == role[m] = "leader"
Running(m) == up[m] # "off"

Init ==
  /\ key = [holder |-> None, ttl |-> FALSE]
  /\ up = [m \in Mains |-> "off"]
  /\ check = [m \in Mains |-> "idle"]
  /\ role = [m \in Mains |-> "unset"]
  /\ late = FALSE /\ faults = 0

-----------------------------------------------------------------------------
(* The process starts, `init` calls tryBecomeLeader. *)
Boot(m) ==
  /\ up[m] = "off"
  /\ up' = [up EXCEPT ![m] = "init"]
  /\ check' = [check EXCEPT ![m] = "claim"]
  /\ UNCHANGED <<key, role, late, faults>>

(* `checkLeader`: the reading of the key, by whose id it holds. *)
Checks(m) == up[m] = "up" /\ check[m] = "idle"

KeyIsMine(m) ==
  /\ Checks(m) /\ key.holder = m
  /\ check' = [check EXCEPT ![m] = "renew"]
  /\ UNCHANGED <<key, up, role, late, faults>>

KeyIsTaken(m) ==
  /\ Checks(m) /\ key.holder \notin {m, None}
  /\ role' = [role EXCEPT ![m] = IF @ = "leader" THEN "follower" ELSE @]
  /\ UNCHANGED <<key, up, check, late, faults>>

SlipKeyIsVacant(m) ==
  /\ Checks(m) /\ key.holder = None
  /\ role' = [role EXCEPT ![m] = "follower"]
  /\ UNCHANGED <<key, up, check, late, faults>>

KeyIsVacant(m) ==
  /\ Checks(m) /\ key.holder = None
  /\ role' = [role EXCEPT ![m] = "follower"]
  /\ check' = [check EXCEPT ![m] = "claim"]
  /\ UNCHANGED <<key, up, late, faults>>

(* `expire` takes effect on whatever key there is by now. *)
Prolonged == [key EXCEPT !.ttl = key.holder # None]

(* The renewal ends a check that found the id of the main. *)
Renew(m) ==
  /\ Running(m) /\ check[m] = "renew"
  /\ key' = Prolonged
  /\ check' = [check EXCEPT ![m] = "idle"]
  /\ UNCHANGED <<up, role, late, faults>>

(* `tryBecomeLeader`: setnx, then the time to live and the takeover. *)
Initialised(m) == up' = [up EXCEPT ![m] = IF @ = "init" THEN "up" ELSE @]

SlipClaim(m) ==
  /\ Running(m) /\ check[m] = "claim"
  /\ key' = [holder |-> m, ttl |-> FALSE]
  /\ role' = [role EXCEPT ![m] = "leader"]
  /\ check' = [check EXCEPT ![m] = "won"]
  /\ UNCHANGED <<up, late, faults>>

Claim(m) ==
  /\ Running(m) /\ check[m] = "claim" /\ key.holder = None
  /\ key' = [holder |-> m, ttl |-> FALSE]
  /\ role' = [role EXCEPT ![m] = "leader"]
  /\ check' = [check EXCEPT ![m] = "won"]
  /\ UNCHANGED <<up, late, faults>>

ClaimFails(m) ==
  /\ Running(m) /\ check[m] = "claim" /\ key.holder # None
  /\ role' = [role EXCEPT ![m] = "follower"]
  /\ check' = [check EXCEPT ![m] = "idle"]
  /\ Initialised(m)
  /\ UNCHANGED <<key, late, faults>>

TakeOver(m) ==
  /\ Running(m) /\ check[m] = "won"
  /\ key' = Prolonged
  /\ check' = [check EXCEPT ![m] = "idle"]
  /\ Initialised(m)
  /\ UNCHANGED <<role, late, faults>>

-----------------------------------------------------------------------------
(* Redis: the key is not renewed in time.  A main that is up renews its key *)
(* several times within the time to live, so it is a fault if it does not.  *)
Expire ==
  /\ key.ttl
  /\ IF key.holder = Gone THEN UNCHANGED <<late, faults>>
     ELSE /\ faults < MaxFaults
          /\ faults' = faults + 1
          /\ late' = TRUE
  /\ key' = [holder |-> None, ttl |-> FALSE]
  /\ UNCHANGED <<up, check, role>>

(* The process ends, and its id with it. *)
Abandoned(k, m) == [k EXCEPT !.holder = IF @ = m THEN Gone ELSE @]

Exit(m) ==
  /\ key' = Abandoned(key, m)
  /\ up' = [up EXCEPT ![m] = "off"]
  /\ check' = [check EXCEPT ![m] = "idle"]
  /\ role' = [role EXCEPT ![m] = "unset"]
  /\ UNCHANGED <<late>>

Crash(m) ==
  /\ Running(m) /\ faults < MaxFaults
  /\ faults' = faults + 1
  /\ Exit(m)

(* `shutdown`: no further check begins, and a leader deletes the key, which *)
(* by now may be the key of another main.                                   *)
Shutdown(m) ==
  /\ up[m] = "up" /\ faults < MaxFaults
  /\ faults' = faults + 1
  /\ up' = [up EXCEPT ![m] = "leaving"]
  /\ key' = IF IsLeader(m) THEN [holder |-> None, ttl |-> FALSE] ELSE key
  /\ UNCHANGED <<check, role, late>>

Leave(m) ==
  /\ up[m] = "leaving"
  /\ Exit(m)
  /\ UNCHANGED faults

-----------------------------------------------------------------------------
Check(m) ==
  KeyIsMine(m) \/ KeyIsTaken(m) \/ KeyIsVacant(m) \/ Renew(m)
    \/ Claim(m) \/ ClaimFails(m) \/ TakeOver(m)

Next ==
  \/ Expire
  \/ \E m \in Mains :
       Boot(m) \/ Check(m) \/ Crash(m) \/ Shutdown(m) \/ Leave(m)

Spec == Init /\ [][Next]_electionVars

(* Mains are started again, checks recur and their commands are answered, a *)
(* main that shuts down ends, and the key of a process that ended expires.   *)
ExpireUnrenewed == key.holder = Gone /\ Expire

Fairness ==
  /\ WF_electionVars(ExpireUnrenewed)
  /\ \A m \in Mains : WF_electionVars(Boot(m)) /\ WF_electionVars(Check(m))
                      /\ WF_electionVars(Leave(m))

FairSpec == Spec /\ Fairness

-----------------------------------------------------------------------------
(* Every variable has its type. *)
ElectionTypeOK ==
  /\ key \in [holder : Mains \cup {None, Gone}, ttl : BOOLEAN]
  /\ up \in [Mains -> {"off", "init", "up", "leaving"}]
  /\ check \in [Mains -> {"idle", "renew", "claim", "won"}]
  /\ role \in [Mains -> {"unset", "leader", "follower"}]
  /\ faults \in 0 .. MaxFaults
  /\ late \in BOOLEAN

(* Two mains lead at once only after the key of a main that was up expired: *)
(* until then the leader is the main whose id the key holds, whatever       *)
(* crashes, shuts down or boots meanwhile.  A main that shuts down still    *)
(* has the role after it deleted the key.                                   *)
LeaderHoldsKey ==
  ~late => \A m \in Mains : up[m] \in {"init", "up"} /\ IsLeader(m) => key.holder = m

(* The main whose id the key holds has the role: no main renews a key in    *)
(* vain.                                                                    *)
HolderLeads == \A m \in Mains : key.holder = m => IsLeader(m)

(* "Designates leader and followers when running multiple main processes":  *)
(* again and again there is a main that leads, unless a process that ended  *)
(* between the setting of the key and of its time to live froze the key.    *)
LeaderAgain ==
  []<>(key.holder = Gone /\ ~key.ttl) \/ []<>(\E m \in Mains : up[m] = "up" /\ IsLeader(m))
=============================================================================
