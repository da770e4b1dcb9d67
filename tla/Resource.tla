------------------------------ MODULE Resource ------------------------------
(***************************************************************************)
(* A custom resource under one name, as the API server stores it and as    *)
(* the only controller process of its kind sees it: the version in the     *)
(* watch cache and the events to come.  The Database and the User          *)
(* controller each use one; the finalizer helper is the same for both.     *)
(*                                                                         *)
(*   stored   what the API server stores now; Absent when there is none    *)
(*   feed     the version in the watch cache, then the events to come      *)
(*   queued   a reconcile is scheduled                                     *)
(*   newest   the uid of the newest incarnation                            *)
(*   past     the last MaxLag versions before it: a list may answer with one *)
(*   step     the request the reconcile issues next, "idle" between two    *)
(*   faults   how many requests failed and processes died                  *)
(***************************************************************************)
EXTENDS Integers, Sequences

CONSTANTS Phases,     \* what status.phase may be; no status reads as "New"
          MaxUid,     \* bound: incarnations of the resource
          MaxLag,     \* bound: how many versions a list may lag behind
          MaxFaults   \* bound: failed requests and crashes together

VARIABLES stored, feed, queued, newest, past, step, faults

Version == [uid : Nat, fin : BOOLEAN, deleting : BOOLEAN, phase : Phases]

Absent == [uid |-> 0, fin |-> FALSE, deleting |-> FALSE, phase |-> "New"]

Exists(v) == v.uid # 0
Live(v) == v.fin /\ ~v.deleting

Cached == Head(feed)

object == <<stored, feed, newest, past>>

Remember == LET all == Append(past, stored) IN
            past' = IF Len(all) <= MaxLag THEN all ELSE Tail(all)

\* A write that changes nothing makes no new version.
Store(v) == /\ IF v = stored THEN UNCHANGED <<stored, feed, past>>
               ELSE stored' = v /\ feed' = Append(feed, v) /\ Remember
            /\ UNCHANGED newest

-----------------------------------------------------------------------------
(* Requests.  One that is not answered failed on the way there, or on the  *)
(* way back after it took effect; the code sees an Err in both cases.      *)

Outcomes == {"answered", "lost", "unacknowledged"}

Charge(o) == IF o = "answered" THEN UNCHANGED faults
             ELSE faults < MaxFaults /\ faults' = faults + 1

\* The receiver does what is asked if it can (done); its answer is an Ok or not.
Exchange(done, ok, effect, noEffect, onOk, onErr) ==
  \E o \in Outcomes :
    /\ Charge(o)
    /\ IF done /\ o # "lost" THEN effect ELSE noEffect
    /\ IF ok /\ o = "answered" THEN onOk ELSE onErr

Request(accepted, effect, noEffect, onOk, onErr) ==
  Exchange(accepted, accepted, effect, noEffect, onOk, onErr)

\* Requeue, and error_policy after an Err: the reconcile runs again later.
Retry == step' = "idle" /\ queued' = TRUE

\* Action::await_change.
Rest == step' = "idle" /\ UNCHANGED queued

Continue(s) == step' = s /\ UNCHANGED queued

-----------------------------------------------------------------------------
(* The start of a reconcile and the finalizer helper.                      *)

Scheduled == step = "idle" /\ queued

Begin(s) == /\ Scheduled
            /\ step' = s /\ queued' = FALSE
            /\ UNCHANGED object /\ UNCHANGED faults

\* The runner skips an object that has left its cache.
SkipGone == ~Exists(Cached) /\ Begin("idle")

AddFinalizer ==
  /\ step = "addFinalizer"
  /\ Request(Exists(stored) /\ ~stored.fin,
             Store([stored EXCEPT !.fin = TRUE]), UNCHANGED object, Rest, Retry)

\* cleanup of these resources makes no request of its own; the patch that
\* takes the finalizer off tests that it is there.
RemoveFinalizer ==
  /\ step = "removeFinalizer"
  /\ Request(Exists(stored) /\ stored.fin,
             Store(IF stored.deleting THEN Absent ELSE [stored EXCEPT !.fin = FALSE]),
             UNCHANGED object, Rest, Retry)

\* set_phase_msg(..).await.ok(): nothing depends on the outcome.
SetPhase(p) == Request(Exists(stored), Store([stored EXCEPT !.phase = p]),
                       UNCHANGED object, Retry, Retry)

-----------------------------------------------------------------------------
(* The runtime and the users.                                              *)

Watch == /\ Len(feed) > 1
         /\ feed' = Tail(feed) /\ queued' = TRUE
         /\ UNCHANGED <<stored, newest, past, step, faults>>

\* After the process died a new one lists the resource and reconciles it.  With
\* any_semantic the list may lag behind; the events since then follow.
Restart ==
  /\ LET all == Append(past, stored) IN
     \E i \in 1..Len(all) : feed' = SubSeq(all, i, Len(all))
  /\ queued' = TRUE /\ step' = "idle"
  /\ UNCHANGED <<stored, newest, past>>

Create == /\ ~Exists(stored) /\ newest < MaxUid
          /\ newest' = newest + 1
          /\ stored' = [Absent EXCEPT !.uid = newest + 1]
          /\ feed' = Append(feed, stored') /\ Remember
          /\ UNCHANGED <<queued, step, faults>>

Delete == /\ Exists(stored) /\ ~stored.deleting
          /\ Store(IF stored.fin THEN [stored EXCEPT !.deleting = TRUE] ELSE Absent)
          /\ UNCHANGED <<queued, step, faults>>

Init == /\ stored = Absent
        /\ feed = <<Absent>>
        /\ queued = FALSE
        /\ newest = 0 /\ past = <<>>
        /\ step = "idle"

TypeOK == /\ stored \in Version /\ {feed, past} \subseteq Seq(Version) /\ feed # <<>>
          /\ queued \in BOOLEAN /\ newest \in 0..MaxUid /\ faults \in 0..MaxFaults
=============================================================================
