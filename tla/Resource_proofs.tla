--------------------------- MODULE Resource_proofs ---------------------------
(***************************************************************************)
(* What a controller can know of a resource, however far its cache and its *)
(* lists lag behind: every version it meets is of an incarnation that was  *)
(* made, and what has no uid is no version at all.                         *)
(***************************************************************************)
EXTENDS Resource, TLAPS

Bounded == MaxUid \in Nat /\ MaxFaults \in Nat /\ "New" \in Phases

\* A version there may have been up to incarnation n, or the mark of deletion.
Seen(n, v) == v \in Version /\ v.uid <= n /\ (~Exists(v) => v = Absent)

\* The same of all versions of a sequence.
AllSeen(n, s) == s \in Seq(Version) /\ \A i \in DOMAIN s : Seen(n, s[i])

ObjectInv == /\ newest \in 0..MaxUid
             /\ Seen(newest, stored)
             /\ AllSeen(newest, feed) /\ feed # <<>>
             /\ AllSeen(newest, past)

-----------------------------------------------------------------------------
(* Sequences of versions.                                                  *)

LEMMA AbsentSeen == ASSUME Bounded, NEW n \in Nat PROVE Seen(n, Absent)
  BY DEF Bounded, Seen, Absent, Version, Exists

LEMMA AppendSeen == ASSUME NEW n, NEW s, AllSeen(n, s), NEW v, Seen(n, v)
                    PROVE  AllSeen(n, Append(s, v)) /\ Append(s, v) # <<>>
<1>1. ASSUME NEW t, t = Append(s, v)
      PROVE  /\ t \in Seq(Version) /\ t # <<>> /\ Len(s) \in Nat
             /\ DOMAIN t = 1..(Len(s) + 1) /\ DOMAIN s = 1..Len(s)
             /\ \A i \in 1..Len(s) : t[i] = s[i]
             /\ t[Len(s) + 1] = v
  BY <1>1 DEF AllSeen, Seen
<1>2. ASSUME NEW t, t = Append(s, v) PROVE AllSeen(n, t) /\ t # <<>>
  BY <1>1, <1>2 DEF AllSeen
<1> QED BY <1>2

LEMMA TailSeen == ASSUME NEW n, NEW s, AllSeen(n, s), s # <<>>
                  PROVE  AllSeen(n, Tail(s)) /\ (Len(s) > 1 => Tail(s) # <<>>) /\ Seen(n, Head(s))
<1>1. ASSUME NEW t, t = Tail(s)
      PROVE  /\ t \in Seq(Version) /\ Len(s) \in Nat \ {0}
             /\ DOMAIN t = 1..(Len(s) - 1) /\ DOMAIN s = 1..Len(s)
             /\ \A i \in DOMAIN t : i + 1 \in DOMAIN s /\ t[i] = s[i + 1]
             /\ Len(t) = Len(s) - 1
             /\ Head(s) = s[1]
  <2>1. s \in Seq(Version) /\ Len(s) \in Nat \ {0}
    BY DEF AllSeen
  <2> QED BY <1>1, <2>1
<1>2. ASSUME NEW t, t = Tail(s) PROVE AllSeen(n, t) /\ (Len(s) > 1 => t # <<>>) /\ Seen(n, Head(s))
  BY <1>1, <1>2 DEF AllSeen
<1> QED BY <1>2

LEMMA SuffixSeen == ASSUME NEW n, NEW s, AllSeen(n, s), NEW i \in 1..Len(s)
                    PROVE  AllSeen(n, SubSeq(s, i, Len(s))) /\ SubSeq(s, i, Len(s)) # <<>>
<1>1. ASSUME NEW t, t = SubSeq(s, i, Len(s))
      PROVE  /\ t \in Seq(Version) /\ t # <<>>
             /\ \A j \in DOMAIN t : i + j - 1 \in DOMAIN s /\ t[j] = s[i + j - 1]
  <2>1. s \in Seq(Version) /\ Len(s) \in Nat /\ DOMAIN s = 1..Len(s) /\ i \in Nat \ {0} /\ i <= Len(s)
    BY DEF AllSeen
  <2>2. Len(t) = Len(s) - i + 1 /\ DOMAIN t = 1..Len(t)
    BY <1>1, <2>1
  <2>3. \A j \in DOMAIN t : i + j - 1 \in DOMAIN s /\ t[j] = s[i + j - 1]
    BY <1>1, <2>1, <2>2
  <2>4. t \in Seq(Version)
    BY <1>1, <2>1
  <2>5. t # <<>>
    BY <2>1, <2>2, <2>4
  <2> QED BY <2>3, <2>4, <2>5
<1>2. ASSUME NEW t, t = SubSeq(s, i, Len(s)) PROVE AllSeen(n, t) /\ t # <<>>
  BY <1>1, <1>2 DEF AllSeen
<1> QED BY <1>2

-----------------------------------------------------------------------------
(* Each operation of the resource keeps ObjectInv.                         *)

LEMMA Untouched == ASSUME ObjectInv, UNCHANGED object PROVE ObjectInv'
  BY DEF ObjectInv, object, AllSeen, Seen

LEMMA SeenLater == ASSUME NEW n \in Nat, NEW s, AllSeen(n, s)
                   PROVE  AllSeen(n + 1, s)
<1>1. \A v : Seen(n, v) => Seen(n + 1, v)
  BY DEF Seen, Version
<1> QED BY <1>1 DEF AllSeen

LEMMA RememberSeen == ASSUME NEW n, AllSeen(n, past), Seen(n, stored), Remember
                      PROVE  AllSeen(n, past')
<1>1. ASSUME NEW all, all = Append(past, stored) PROVE AllSeen(n, all) /\ AllSeen(n, Tail(all))
  BY <1>1, AppendSeen, TailSeen
<1> QED BY <1>1 DEF Remember

LEMMA StoreKeeps == ASSUME ObjectInv, NEW v, Seen(newest, v), Store(v)
                    PROVE  ObjectInv'
<1>1. newest' = newest
  BY DEF Store
<1>2. CASE v = stored
  BY <1>1, <1>2, Untouched DEF Store, object
<1>3. CASE v # stored
  <2>1. stored' = v /\ feed' = Append(feed, v) /\ Remember
    BY <1>3 DEF Store
  <2>2. Seen(newest, stored') /\ AllSeen(newest, feed') /\ feed' # <<>> /\ AllSeen(newest, past')
    BY <2>1, AppendSeen, RememberSeen DEF ObjectInv
  <2> QED BY <1>1, <2>2 DEF ObjectInv, Seen, AllSeen
<1> QED BY <1>2, <1>3

LEMMA AddFinalizerKeeps == ASSUME ObjectInv, AddFinalizer PROVE ObjectInv'
<1> DEFINE v == [stored EXCEPT !.fin = TRUE]
<1>1. UNCHANGED object \/ (Exists(stored) /\ Store(v))
  BY DEF AddFinalizer, Request, Exchange
<1>2. Exists(stored) => Seen(newest, v)
  BY DEF ObjectInv, Seen, Version, Exists
<1> QED BY <1>1, <1>2, Untouched, StoreKeeps

LEMMA RemoveFinalizerKeeps == ASSUME Bounded, ObjectInv, RemoveFinalizer PROVE ObjectInv'
<1> DEFINE v == IF stored.deleting THEN Absent ELSE [stored EXCEPT !.fin = FALSE]
<1>1. UNCHANGED object \/ (Exists(stored) /\ Store(v))
  BY DEF RemoveFinalizer, Request, Exchange
<1>2. Exists(stored) => Seen(newest, [stored EXCEPT !.fin = FALSE])
  BY DEF ObjectInv, Seen, Version, Exists
<1>3. Seen(newest, Absent)
  BY AbsentSeen DEF Bounded, ObjectInv
<1> QED BY <1>1, <1>2, <1>3, Untouched, StoreKeeps

LEMMA SetPhaseKeeps == ASSUME ObjectInv, NEW p \in Phases, SetPhase(p) PROVE ObjectInv'
<1> DEFINE v == [stored EXCEPT !.phase = p]
<1>1. UNCHANGED object \/ (Exists(stored) /\ Store(v))
  BY DEF SetPhase, Request, Exchange
<1>2. Exists(stored) => Seen(newest, v)
  BY DEF ObjectInv, Seen, Version, Exists
<1> QED BY <1>1, <1>2, Untouched, StoreKeeps

LEMMA DeleteKeeps == ASSUME Bounded, ObjectInv, Delete PROVE ObjectInv'
<1> DEFINE v == IF stored.fin THEN [stored EXCEPT !.deleting = TRUE] ELSE Absent
<1>1. Exists(stored) /\ Store(v)
  BY DEF Delete
<1>2. Seen(newest, [stored EXCEPT !.deleting = TRUE])
  BY <1>1 DEF ObjectInv, Seen, Version, Exists
<1>3. Seen(newest, Absent)
  BY AbsentSeen DEF Bounded, ObjectInv
<1> QED BY <1>1, <1>2, <1>3, StoreKeeps

LEMMA CreateKeeps == ASSUME Bounded, ObjectInv, Create PROVE ObjectInv'
<1> DEFINE v == [Absent EXCEPT !.uid = newest + 1]
<1>1. newest \in Nat /\ newest' = newest + 1 /\ newest' \in 0..MaxUid
  BY DEF Create, Bounded, ObjectInv
<1>2. /\ Seen(newest', v) /\ Seen(newest', stored)
      /\ AllSeen(newest', feed) /\ AllSeen(newest', past)
  <2>1. v \in Version /\ v.uid = newest' /\ Exists(v)
    <3>1. ASSUME NEW n \in Nat \ {0}, NEW w, w = [Absent EXCEPT !.uid = n]
          PROVE  w \in Version /\ w.uid = n /\ Exists(w)
      BY <3>1 DEF Absent, Version, Exists, Bounded
    <3>2. newest + 1 \in Nat \ {0}
      BY <1>1
    <3> QED BY <1>1, <3>1, <3>2
  <2>2. Seen(newest', stored)
    BY <1>1 DEF ObjectInv, Seen, Version
  <2> QED BY <1>1, <2>1, <2>2, SeenLater DEF ObjectInv, Seen
<1>3. stored' = v /\ feed' = Append(feed, v)
  BY DEF Create
<1>4. AllSeen(newest', feed') /\ feed' # <<>>
  BY <1>2, <1>3, AppendSeen
<1>5. AllSeen(newest', past')
  BY <1>2, RememberSeen DEF Create
<1> QED BY <1>1, <1>2, <1>3, <1>4, <1>5 DEF ObjectInv, AllSeen, Seen

LEMMA WatchKeeps == ASSUME ObjectInv, Watch PROVE ObjectInv'
<1>1. AllSeen(newest, Tail(feed)) /\ Tail(feed) # <<>>
  BY TailSeen DEF Watch, ObjectInv
<1> QED BY <1>1 DEF Watch, ObjectInv, AllSeen, Seen

LEMMA RestartKeeps == ASSUME ObjectInv, Restart PROVE ObjectInv'
<1> DEFINE all == Append(past, stored)
<1>1. PICK i \in 1..Len(all) : feed' = SubSeq(all, i, Len(all))
  BY DEF Restart
<1>2. AllSeen(newest, all)
  BY AppendSeen DEF ObjectInv
<1> HIDE DEF all
<1>3. AllSeen(newest, feed') /\ feed' # <<>>
  BY <1>1, <1>2, SuffixSeen
<1> QED BY <1>3 DEF Restart, ObjectInv, AllSeen, Seen

\* The version a reconcile begins with has been stored once.
LEMMA CachedSeen == ASSUME ObjectInv PROVE Seen(newest, Cached)
  BY TailSeen DEF ObjectInv, Cached

LEMMA InitSeen == ASSUME Bounded, Init PROVE ObjectInv
<1>1. newest = 0 /\ stored = Absent /\ feed = <<Absent>> /\ past = <<>>
  BY DEF Init
<1>2. Seen(0, Absent) /\ Absent \in Version
  BY AbsentSeen DEF Seen
<1>3. AllSeen(0, <<>>)
  BY DEF AllSeen
<1>4. AllSeen(0, <<Absent>>)
  BY <1>2 DEF AllSeen
<1> QED BY <1>1, <1>2, <1>3, <1>4 DEF ObjectInv, Bounded

-----------------------------------------------------------------------------
(* What becomes of the stored version.                                     *)

LEMMA Rewrites == ASSUME ObjectInv, AddFinalizer \/ RemoveFinalizer \/ Watch \/ Restart \/ Delete
                  PROVE  /\ newest' = newest
                         /\ \/ stored' = Absent
                            \/ stored'.uid = stored.uid /\ stored'.phase = stored.phase
<1> DEFINE Kept == newest' = newest /\ (stored' = Absent \/ (stored'.uid = stored.uid /\ stored'.phase = stored.phase))
<1>1. ASSUME NEW v, Store(v), v = Absent \/ (v.uid = stored.uid /\ v.phase = stored.phase) PROVE Kept
  BY <1>1 DEF Store
<1>2. CASE UNCHANGED object
  BY <1>2 DEF object
<1>3. stored \in Version
  BY DEF ObjectInv, Seen
<1>4. CASE AddFinalizer
  <2>1. UNCHANGED object \/ Store([stored EXCEPT !.fin = TRUE])
    BY <1>4 DEF AddFinalizer, Request, Exchange
  <2> QED BY <1>1, <1>2, <1>3, <2>1 DEF Version
<1>5. CASE RemoveFinalizer
  <2>1. UNCHANGED object \/ Store(Absent) \/ Store([stored EXCEPT !.fin = FALSE])
    BY <1>5 DEF RemoveFinalizer, Request, Exchange
  <2> QED BY <1>1, <1>2, <1>3, <2>1 DEF Version
<1>6. CASE Delete
  <2>1. Store(Absent) \/ Store([stored EXCEPT !.deleting = TRUE])
    BY <1>6 DEF Delete
  <2> QED BY <1>1, <1>3, <2>1 DEF Version
<1>7. CASE Watch \/ Restart
  BY <1>7 DEF Watch, Restart
<1> QED BY <1>4, <1>5, <1>6, <1>7

LEMMA SetsPhase == ASSUME ObjectInv, NEW p, SetPhase(p)
                   PROVE  /\ newest' = newest
                          /\ \/ stored' = stored
                             \/ Exists(stored) /\ stored'.uid = stored.uid /\ stored'.phase = p
<1> DEFINE v == [stored EXCEPT !.phase = p]
<1>1. UNCHANGED object \/ (Exists(stored) /\ Store(v))
  BY DEF SetPhase, Request, Exchange
<1>2. v.uid = stored.uid /\ v.phase = p
  BY DEF ObjectInv, Seen, Version
<1> HIDE DEF v
<1> QED BY <1>1, <1>2 DEF Store, object

LEMMA Creates == ASSUME Create
                 PROVE  stored'.phase = "New" /\ ~Exists(stored) /\ newest < MaxUid /\ newest' = newest + 1
  BY DEF Create, Absent

=============================================================================
