------------------------ MODULE ClientLifecycle_proofs ------------------------
(***************************************************************************)
(* The proof that an index of a client is never given out twice and never  *)
(* lost, for any number of clients and any interleaving of the threads.    *)
(*                                                                         *)
(* IndexesOwnedOnce counts the owners of an index; the proof follows one   *)
(* index instead: IndexesApart says that no two owners have the same one   *)
(* and that each has an owner.                                             *)
(***************************************************************************)
EXTENDS ClientLifecycle, SequenceTheorems, FiniteSetTheorems, TLAPS

\* What tells a client that has been created from one that has not: it lives, or
\* it was stopped, or a failure was reported, before it was destroyed.
Traces(x) == client[x].alive \/ client[x].stopped \/ client[x].m_enStatus # "ok"

ObjectsOK ==
  /\ client \in [Client -> ClientRecord]
  /\ \A x \in Client : Created(x) => Traces(x)

ThreadsOK ==
  /\ at = [t \in Threads |-> at[t]]
  /\ \A t \in Threads : at[t] = Idle \/ (at[t].x \in Client /\ Created(at[t].x))

ServicesOK ==
  /\ timers \subseteq Client /\ network \subseteq Client /\ udp \subseteq Client
  /\ \A x \in timers \cup network \cup udp : Created(x)

Owns(x, i) == client[x].alive /\ client[x].m_ulIndex = i
OnFreeList(i) == \E k \in DOMAIN m_ClientFreeList : m_ClientFreeList[k] = i

IndexesApart ==
  /\ m_ClientFreeList \in Seq(Index)
  /\ \A k, l \in DOMAIN m_ClientFreeList :
       m_ClientFreeList[k] = m_ClientFreeList[l] => k = l
  /\ \A x \in Client : \A i : Owns(x, i) => i \in Index /\ ~OnFreeList(i)
  /\ \A x, y \in Client : \A i : Owns(x, i) /\ Owns(y, i) => x = y
  /\ \A i \in Index : OnFreeList(i) \/ \E x \in Client : Owns(x, i)

LifecycleInv ==
  /\ ObjectsOK /\ ThreadsOK /\ ServicesOK /\ IndexesApart
  /\ application \in Applications

-----------------------------------------------------------------------------
(* The ways in which a client changes.                                     *)

LEMMA TracesOfCreated ==
  ASSUME NEW x, Traces(x)
  PROVE  Created(x)
BY DEF Traces, Created, NotCreated, NewClient

\* A client changes, and stays what it was to the list of indexes.
Changes(x, r) ==
  /\ client' = [client EXCEPT ![x] = r]
  /\ r \in ClientRecord
  /\ r.alive = client[x].alive /\ r.m_ulIndex = client[x].m_ulIndex
  /\ client[x].stopped => r.stopped
  /\ client[x].m_enStatus # "ok" => r.m_enStatus # "ok"

LEMMA ChangeKeepsObjects ==
  ASSUME ObjectsOK, NEW x \in Client, Created(x), NEW r, Changes(x, r)
  PROVE  ObjectsOK' /\ (\A y \in Client : Created(y) => Created(y)')
<1>1. client' \in [Client -> ClientRecord]
  BY DEF ObjectsOK, Changes
<1>2. Traces(x) /\ Traces(x)'
  BY DEF ObjectsOK, Changes, Traces
<1>3. \A y \in Client \ {x} : client'[y] = client[y]
  BY DEF ObjectsOK, Changes
<1>4. Created(x)'
  BY <1>2 DEF Traces, Created, NotCreated, NewClient
<1>5. \A y \in Client \ {x} : (Created(y)' <=> Created(y)) /\ (Traces(y)' <=> Traces(y))
  BY <1>3 DEF Created, Traces
<1> QED
  BY <1>1, <1>2, <1>4, <1>5 DEF ObjectsOK

LEMMA ChangeKeepsIndexes ==
  ASSUME ObjectsOK, IndexesApart, NEW x \in Client, NEW r, Changes(x, r),
         UNCHANGED m_ClientFreeList
  PROVE  IndexesApart'
<1>1. \A y \in Client : client'[y].alive = client[y].alive /\ client'[y].m_ulIndex = client[y].m_ulIndex
  BY DEF ObjectsOK, Changes
<1>2. \A y \in Client : \A i : Owns(y, i)' <=> Owns(y, i)
  BY <1>1 DEF Owns
<1>3. \A i : OnFreeList(i)' <=> OnFreeList(i)
  BY DEF OnFreeList
<1> QED
  BY <1>2, <1>3 DEF IndexesApart

\* A thread goes to another place, with a client that has been created.
LEMMA GoToKeepsThreads ==
  ASSUME ThreadsOK, NEW t \in Threads, NEW pc, NEW x \in Client, Created(x)', GoTo(t, pc, x),
         \A y \in Client : Created(y) => Created(y)'
  PROVE  ThreadsOK'
<1>1. \A u \in Threads : at'[u] = IF u = t THEN (IF pc = "idle" THEN Idle ELSE [pc |-> pc, x |-> x])
                                    ELSE at[u]
  BY DEF ThreadsOK, GoTo
<1>2. at' = [u \in Threads |-> at'[u]]
  BY DEF ThreadsOK, GoTo
<1> QED
  BY <1>1, <1>2 DEF ThreadsOK

\* A step of a thread that changes its client and its place, and what is
\* registered where.
LEMMA StepKeepsInv ==
  ASSUME LifecycleInv, NEW x \in Client, Created(x), NEW r, Changes(x, r),
         UNCHANGED <<m_ClientFreeList, application>>,
         NEW t \in Threads, NEW pc, UNCHANGED at \/ GoTo(t, pc, x),
         timers' \subseteq timers \cup {x}, network' \subseteq network \cup {x},
         udp' \subseteq udp \cup {x}
  PROVE  LifecycleInv'
<1>1. ObjectsOK' /\ \A y \in Client : Created(y) => Created(y)'
  BY ChangeKeepsObjects DEF LifecycleInv
<1>2. IndexesApart'
  BY ChangeKeepsIndexes DEF LifecycleInv
<1>3. ThreadsOK'
  <2>1. CASE UNCHANGED at
    BY <1>1, <2>1 DEF LifecycleInv, ThreadsOK
  <2>2. CASE GoTo(t, pc, x)
    BY <1>1, <2>2, GoToKeepsThreads DEF LifecycleInv
  <2> QED
    BY <2>1, <2>2
<1>4. ServicesOK'
  BY <1>1 DEF LifecycleInv, ServicesOK
<1> QED
  BY <1>1, <1>2, <1>3, <1>4 DEF LifecycleInv

\* The same, when the object does not change.
LEMMA NoChange ==
  ASSUME ObjectsOK, NEW x \in Client, UNCHANGED client
  PROVE  Changes(x, client[x])
BY DEF ObjectsOK, Changes

LEMMA AtIsCreated ==
  ASSUME LifecycleInv, NEW t \in Threads, NEW pc, pc # "idle", NEW x, In(t, pc, x)
  PROVE  x \in Client /\ Created(x)
<1>1. at[t].x = x /\ at[t] # Idle
  BY DEF In, Idle
<1> QED
  BY <1>1 DEF LifecycleInv, ThreadsOK

-----------------------------------------------------------------------------
(* The actions.                                                            *)

LEMMA InitLifecycle == Init => LifecycleInv
<1> SUFFICES ASSUME Init PROVE LifecycleInv
  OBVIOUS
<1>1. ObjectsOK
  BY DEF Init, ObjectsOK, Created, NotCreated, NewClient, ClientRecord, Kinds
<1>2. ThreadsOK
  BY DEF Init, ThreadsOK
<1>3. ServicesOK
  BY DEF Init, ServicesOK
<1>4. IndexesApart
  <2>1. m_ClientFreeList = [i \in 1 .. MaxClient |-> i - 1] /\ MaxClient \in Nat
    BY LifecycleConstants DEF Init
  <2>2. m_ClientFreeList \in Seq(Index) /\ DOMAIN m_ClientFreeList = 1 .. MaxClient
    BY <2>1 DEF Index
  <2>3. \A i \in Index : m_ClientFreeList[i + 1] = i /\ i + 1 \in 1 .. MaxClient
    BY <2>1 DEF Index
  <2>4. \A x \in Client : ~client[x].alive
    BY DEF Init, NotCreated, NewClient
  <2>5. \A k, l \in 1 .. MaxClient : m_ClientFreeList[k] = m_ClientFreeList[l] => k = l
    BY <2>1
  <2> QED
    BY <2>2, <2>3, <2>4, <2>5 DEF IndexesApart, Owns, OnFreeList
<1> QED
  BY <1>1, <1>2, <1>3, <1>4 DEF Init, LifecycleInv

LEMMA CreateKeepsInv ==
  ASSUME LifecycleInv, NEW x \in Client, Create(x)
  PROVE  LifecycleInv'
<1> DEFINE i == Head(m_ClientFreeList)
<1>1. PICK kind \in Kinds : client' = [client EXCEPT ![x] = NewClient(kind, i)]
  BY DEF Create
<1>2. /\ ~Created(x) /\ m_ClientFreeList # <<>> /\ m_ClientFreeList \in Seq(Index)
      /\ m_ClientFreeList' = Tail(m_ClientFreeList)
  BY DEF Create, LifecycleInv, IndexesApart
<1>3. i \in Index /\ i \in Nat
  <2>1. i \in Index
    BY <1>2, HeadTailProperties
  <2> QED
    BY <2>1, LifecycleConstants DEF Index
<1>4. /\ client'[x] = NewClient(kind, i)
      /\ \A y \in Client \ {x} : client'[y] = client[y]
  BY <1>1 DEF LifecycleInv, ObjectsOK
<1>5. ~client[x].alive /\ client'[x].alive /\ client'[x].m_ulIndex = i
  BY <1>2, <1>4 DEF Created, NotCreated, NewClient
<1>6. ObjectsOK'
  <2>1. client' \in [Client -> ClientRecord]
    BY <1>1, <1>3 DEF LifecycleInv, ObjectsOK, ClientRecord, NewClient
  <2>2. \A y \in Client \ {x} : Created(y)' => Traces(y)'
    BY <1>4 DEF LifecycleInv, ObjectsOK, Created, Traces
  <2>3. Traces(x)'
    BY <1>5 DEF Traces
  <2> QED
    BY <2>1, <2>2, <2>3 DEF ObjectsOK
<1>7. \A y \in Client : Created(y) => Created(y)'
  BY <1>2, <1>4 DEF Created
<1>8. ThreadsOK' /\ ServicesOK' /\ application' \in Applications
  BY <1>7 DEF LifecycleInv, ThreadsOK, ServicesOK, Create
<1>9. IndexesApart'
  <2> DEFINE s == m_ClientFreeList
             n == Len(s)
  <2>1. /\ s \in Seq(Index) /\ n \in Nat \ {0} /\ DOMAIN s = 1 .. n
        /\ Tail(s) \in Seq(Index) /\ DOMAIN Tail(s) = 1 .. n - 1
        /\ \A k \in 1 .. n - 1 : Tail(s)[k] = s[k + 1]
        /\ s[1] = i
    BY <1>2, EmptySeq, HeadTailProperties, LenProperties
  <2>2. \A k, l \in 1 .. n : s[k] = s[l] => k = l
    BY <2>1 DEF LifecycleInv, IndexesApart
  <2> HIDE DEF s, n, i
  <2>3. \A k, l \in 1 .. n - 1 : Tail(s)[k] = Tail(s)[l] => k = l
    BY <2>1, <2>2
  <2>4. \A j : (\E k \in 1 .. n - 1 : Tail(s)[k] = j) <=> (\E k \in 1 .. n : s[k] = j) /\ j # i
    <3> SUFFICES ASSUME NEW j
                 PROVE  (\E k \in 1 .. n - 1 : Tail(s)[k] = j) <=> (\E k \in 1 .. n : s[k] = j) /\ j # i
      OBVIOUS
    <3>1. ASSUME NEW k \in 1 .. n - 1, Tail(s)[k] = j
          PROVE  s[k + 1] = j /\ k + 1 \in 1 .. n /\ j # i
      BY <2>1, <2>2, <3>1
    <3>2. ASSUME NEW k \in 1 .. n, s[k] = j, j # i
          PROVE  k - 1 \in 1 .. n - 1 /\ Tail(s)[k - 1] = j
      BY <2>1, <3>2
    <3> QED
      BY <3>1, <3>2
  <2>5. \A j : OnFreeList(j)' <=> OnFreeList(j) /\ j # i
    BY <1>2, <2>1, <2>4 DEF OnFreeList, s
  <2>6. \A j : Owns(x, j)' <=> j = i
    BY <1>5 DEF Owns
  <2>7. \A y \in Client \ {x} : \A j : Owns(y, j)' <=> Owns(y, j)
    BY <1>4 DEF Owns
  <2>8. OnFreeList(i) /\ ~\E j : Owns(x, j)
    BY <1>5, <2>1 DEF OnFreeList, Owns, s
  <2>9. \A y \in Client : ~Owns(y, i)
    BY <2>8 DEF LifecycleInv, IndexesApart
  <2>10. m_ClientFreeList' \in Seq(Index) /\ \A k, l \in DOMAIN m_ClientFreeList' :
           m_ClientFreeList'[k] = m_ClientFreeList'[l] => k = l
    BY <1>2, <2>1, <2>3 DEF s
  <2>11. \A y \in Client : \A j : Owns(y, j)' => j \in Index /\ ~OnFreeList(j)'
    BY <1>3, <2>5, <2>6, <2>7 DEF LifecycleInv, IndexesApart
  <2>12. \A y, z \in Client : \A j : Owns(y, j)' /\ Owns(z, j)' => y = z
    BY <2>6, <2>7, <2>9 DEF LifecycleInv, IndexesApart
  <2>13. \A j \in Index : OnFreeList(j)' \/ \E y \in Client : Owns(y, j)'
    BY <2>5, <2>6, <2>7, <2>8 DEF LifecycleInv, IndexesApart
  <2> QED
    BY <2>10, <2>11, <2>12, <2>13 DEF IndexesApart
<1> QED
  BY <1>6, <1>8, <1>9 DEF LifecycleInv

LEMMA DeletedKeepsInv ==
  ASSUME LifecycleInv, NEW x \in Client, client[x].alive, NEW status \in {"ok", "TEARDOWN", "TIMEOUT"},
         client[x].stopped \/ status # "ok", Deleted(x, status),
         NEW t \in Threads, UNCHANGED at \/ GoTo(t, "idle", x),
         UNCHANGED <<timers, network, udp, application>>
  PROVE  LifecycleInv'
<1> DEFINE i == client[x].m_ulIndex
           s == m_ClientFreeList
<1>1. /\ client'[x] = [client[x] EXCEPT !.alive = FALSE, !.m_enStatus = status]
      /\ \A y \in Client \ {x} : client'[y] = client[y]
      /\ m_ClientFreeList' = Append(s, i)
  BY DEF Deleted, LifecycleInv, ObjectsOK
<1>2. client[x] \in ClientRecord
  BY DEF LifecycleInv, ObjectsOK
<1>3. ~client'[x].alive /\ client'[x].stopped = client[x].stopped /\ client'[x].m_enStatus = status
  BY <1>1, <1>2 DEF ClientRecord
<1>4. ObjectsOK'
  <2>1. client' \in [Client -> ClientRecord]
    <3>1. [client[x] EXCEPT !.alive = FALSE] \in ClientRecord
      BY <1>2 DEF ClientRecord
    <3>2. \A r \in ClientRecord : [r EXCEPT !.m_enStatus = status] \in ClientRecord
      BY DEF ClientRecord
    <3>3. client'[x] \in ClientRecord
      BY <1>1, <3>1, <3>2
    <3>4. client' = [y \in Client |-> client'[y]]
      BY DEF Deleted, LifecycleInv, ObjectsOK
    <3> QED
      BY <1>1, <3>3, <3>4 DEF LifecycleInv, ObjectsOK
  <2>2. Traces(x)'
    BY <1>3 DEF Traces
  <2>3. \A y \in Client \ {x} : Created(y)' => Traces(y)'
    BY <1>1 DEF LifecycleInv, ObjectsOK, Created, Traces
  <2> QED
    BY <2>1, <2>2, <2>3 DEF ObjectsOK
<1>5. Created(x)'
  BY <1>3 DEF Created, NotCreated, NewClient
<1>6. \A y \in Client : Created(y) => Created(y)'
  BY <1>1, <1>5 DEF Created
<1>7. ThreadsOK'
  <2>1. CASE UNCHANGED at
    BY <1>6, <2>1 DEF LifecycleInv, ThreadsOK
  <2>2. CASE GoTo(t, "idle", x)
    BY <1>5, <1>6, <2>2, GoToKeepsThreads DEF LifecycleInv
  <2> QED
    BY <2>1, <2>2
<1>8. ServicesOK'
  BY <1>6 DEF LifecycleInv, ServicesOK
<1>9. IndexesApart'
  <2>1. Owns(x, i)
    BY DEF Owns
  <2>2. i \in Index /\ ~OnFreeList(i) /\ s \in Seq(Index)
    BY <2>1 DEF LifecycleInv, IndexesApart
  <2>3. /\ Append(s, i) \in Seq(Index) /\ DOMAIN s = 1 .. Len(s) /\ Len(s) \in Nat
        /\ DOMAIN Append(s, i) = 1 .. Len(s) + 1
        /\ \A k \in 1 .. Len(s) : Append(s, i)[k] = s[k]
        /\ Append(s, i)[Len(s) + 1] = i
    BY <2>2, AppendProperties, LenProperties
  <2>4. \A k, l \in 1 .. Len(s) : s[k] = s[l] => k = l
    BY <2>3 DEF LifecycleInv, IndexesApart
  <2>5. \A k \in 1 .. Len(s) : s[k] # i
    BY <2>2, <2>3 DEF OnFreeList
  <2>6. \A y \in Client : \A j : Owns(y, j)' <=> Owns(y, j) /\ y # x
    BY <1>1, <1>3 DEF Owns
  <2>7. \A j : Owns(x, j) => j = i
    BY DEF Owns
  <2> HIDE DEF i, s
  <2>8. \A j : (\E k \in 1 .. Len(s) + 1 : Append(s, i)[k] = j)
              <=> (\E k \in 1 .. Len(s) : s[k] = j) \/ j = i
    <3>1. \A k \in 1 .. Len(s) + 1 : k \in 1 .. Len(s) \/ k = Len(s) + 1
      BY <2>3
    <3>2. \A k \in 1 .. Len(s) : k \in 1 .. Len(s) + 1
      BY <2>3
    <3>3. Len(s) + 1 \in 1 .. Len(s) + 1
      BY <2>3
    <3> QED
      BY <2>3, <3>1, <3>2, <3>3
  <2>9. \A j : OnFreeList(j)' <=> OnFreeList(j) \/ j = i
    BY <1>1, <2>3, <2>8 DEF OnFreeList, s
  <2>10. \A k, l \in 1 .. Len(s) + 1 : Append(s, i)[k] = Append(s, i)[l] => k = l
    BY <2>3, <2>4, <2>5
  <2>11. m_ClientFreeList' \in Seq(Index) /\ \A k, l \in DOMAIN m_ClientFreeList' :
           m_ClientFreeList'[k] = m_ClientFreeList'[l] => k = l
    BY <1>1, <2>3, <2>10
  <2>12. \A y \in Client : \A j : Owns(y, j)' => j \in Index /\ ~OnFreeList(j)'
    BY <2>1, <2>6, <2>9 DEF LifecycleInv, IndexesApart
  <2>13. \A y, z \in Client : \A j : Owns(y, j)' /\ Owns(z, j)' => y = z
    BY <2>6 DEF LifecycleInv, IndexesApart
  <2>14. \A j \in Index : OnFreeList(j)' \/ \E y \in Client : Owns(y, j)'
    BY <2>6, <2>7, <2>9 DEF LifecycleInv, IndexesApart
  <2> QED
    BY <2>11, <2>12, <2>13, <2>14 DEF IndexesApart
<1> QED
  BY <1>4, <1>7, <1>8, <1>9 DEF LifecycleInv

LEMMA StopKeepsInv ==
  ASSUME LifecycleInv, NEW x \in Client, NEW t \in Threads, StopStep(t, x)
  PROVE  LifecycleInv'
<1>1. client[x] \in ClientRecord
  BY DEF LifecycleInv, ObjectsOK
<1>2. CASE StopCancel(t, x)
  <2>1. Created(x)
    BY <1>2, AtIsCreated DEF StopCancel
  <2>2. Changes(x, [client[x] EXCEPT !.m_bRegister = FALSE])
    BY <1>1, <1>2 DEF StopCancel, Changes, ClientRecord
  <2>3. GoTo(t, "disarm", x)
    BY <1>2 DEF StopCancel
  <2> QED
    BY <1>2, <2>1, <2>2, <2>3, StepKeepsInv DEF StopCancel
<1>3. CASE StopDisarm(t, x)
  <2>1. Created(x)
    BY <1>3, AtIsCreated DEF StopDisarm
  <2>2. Changes(x, [client[x] EXCEPT !.armed = @ /\ Is(x, "rtmp")])
    BY <1>1, <1>3 DEF StopDisarm, Changes, ClientRecord
  <2>3. GoTo(t, "remove", x)
    BY <1>3 DEF StopDisarm
  <2> QED
    BY <1>3, <2>1, <2>2, <2>3, StepKeepsInv DEF StopDisarm
<1>4. CASE StopRemove(t, x)
  <2>1. Created(x)
    BY <1>4, AtIsCreated DEF StopRemove
  <2>2. Changes(x, client[x])
    BY <1>4, NoChange DEF StopRemove, LifecycleInv
  <2>3. GoTo(t, "release", x)
    BY <1>4 DEF StopRemove
  <2> QED
    BY <1>4, <2>1, <2>2, <2>3, StepKeepsInv DEF StopRemove
<1>5. CASE StopRelease(t, x)
  <2>1. Created(x)
    BY <1>5, AtIsCreated DEF StopRelease
  <2>2. Changes(x, [client[x] EXCEPT !.m_rtmpHandle = FALSE, !.stopped = @ \/ t = "app"])
    BY <1>1, <1>5 DEF StopRelease, Changes, ClientRecord
  <2>3. GoTo(t, IF t = "timer" THEN "checked" ELSE "idle", x)
    BY <1>5 DEF StopRelease
  <2> QED
    BY <1>5, <2>1, <2>2, <2>3, StepKeepsInv DEF StopRelease
<1> QED
  BY <1>2, <1>3, <1>4, <1>5 DEF StopStep

\* The calls and the thread of the application.
LEMMA AppKeepsInv ==
  ASSUME LifecycleInv, NEW x \in Client,
         StartRtsp(x) \/ StartRtmp(x) \/ Stop(x) \/ Destroy(x) \/ Silence(x) \/ AppStep(x)
  PROVE  LifecycleInv'
<1>1. client[x] \in ClientRecord
  BY DEF LifecycleInv, ObjectsOK
<1>2. "app" \in Threads
  BY DEF Threads
<1>3. Alive(x) => Created(x)
  BY TracesOfCreated DEF Alive, Traces
<1>4. CASE StartRtsp(x)
  <2>1. Changes(x, [client[x] EXCEPT !.started = TRUE])
    BY <1>1, <1>4 DEF StartRtsp, Changes, ClientRecord
  <2>2. UNCHANGED at \/ GoTo("app", "options", x)
    BY <1>4 DEF StartRtsp
  <2> QED
    BY <1>2, <1>3, <1>4, <2>1, <2>2, StepKeepsInv DEF StartRtsp
<1>5. CASE StartRtmp(x)
  <2>1. CASE UNCHANGED <<at, network>> /\ client' = [client EXCEPT ![x].started = TRUE]
    <3>1. Changes(x, [client[x] EXCEPT !.started = TRUE])
      BY <1>1, <2>1 DEF Changes, ClientRecord
    <3> QED
      BY <1>2, <1>3, <1>5, <2>1, <3>1, StepKeepsInv DEF StartRtmp
  <2>2. CASE /\ client' = [client EXCEPT ![x].started = TRUE, ![x].armed = TRUE,
                                         ![x].m_rtmpHandle = TRUE]
             /\ network' = network \cup {x}
             /\ GoTo("app", "timer", x)
    <3>1. Changes(x, [client[x] EXCEPT !.started = TRUE, !.armed = TRUE, !.m_rtmpHandle = TRUE])
      BY <1>1, <2>2 DEF Changes, ClientRecord
    <3> QED
      BY <1>2, <1>3, <1>5, <2>2, <3>1, StepKeepsInv DEF StartRtmp
  <2> QED
    BY <1>5, <2>1, <2>2 DEF StartRtmp
<1>6. CASE Stop(x)
  <2>1. Changes(x, client[x])
    BY <1>6, NoChange DEF Stop, LifecycleInv
  <2>2. GoTo("app", StopEntry(x), x)
    BY <1>6 DEF Stop
  <2> QED
    BY <1>2, <1>3, <1>6, <2>1, <2>2, StepKeepsInv DEF Stop
<1>7. CASE Destroy(x)
  <2>1. client[x].m_enStatus \in {"ok", "TEARDOWN", "TIMEOUT"}
    BY <1>1 DEF ClientRecord
  <2> QED
    BY <1>2, <1>7, <2>1, DeletedKeepsInv DEF Destroy, Alive
<1>8. CASE Silence(x)
  <2>1. Changes(x, [client[x] EXCEPT !.silent = TRUE])
    BY <1>1, <1>8 DEF Silence, Changes, ClientRecord
  <2> QED
    BY <1>2, <1>3, <1>8, <2>1, StepKeepsInv DEF Silence
<1>9. CASE StartOptions(x)
  <2>1. Created(x)
    BY <1>2, <1>9, AtIsCreated DEF StartOptions
  <2>2. CASE GoTo("app", "idle", x) /\ UNCHANGED client
    <3>1. Changes(x, client[x])
      BY <2>2, NoChange DEF LifecycleInv
    <3> QED
      BY <1>2, <1>9, <2>1, <2>2, <3>1, StepKeepsInv DEF StartOptions
  <2>3. CASE client' = [client EXCEPT ![x].armed = TRUE] /\ GoTo("app", "timer", x)
    <3>1. Changes(x, [client[x] EXCEPT !.armed = TRUE])
      BY <1>1, <2>3 DEF Changes, ClientRecord
    <3> QED
      BY <1>2, <1>9, <2>1, <2>3, <3>1, StepKeepsInv DEF StartOptions
  <2> QED
    BY <1>9, <2>2, <2>3 DEF StartOptions
<1>10. CASE RegisterTimer(x)
  <2>1. Created(x)
    BY <1>2, <1>10, AtIsCreated DEF RegisterTimer
  <2>2. CASE /\ client' = [client EXCEPT ![x].m_bRegister = FALSE]
             /\ GoTo("app", "idle", x)
             /\ UNCHANGED timers
    <3>1. Changes(x, [client[x] EXCEPT !.m_bRegister = FALSE])
      BY <1>1, <2>2 DEF Changes, ClientRecord
    <3> QED
      BY <1>2, <1>10, <2>1, <2>2, <3>1, StepKeepsInv DEF RegisterTimer
  <2>3. CASE timers' = timers \cup {x} /\ GoTo("app", "registered", x) /\ UNCHANGED client
    <3>1. Changes(x, client[x])
      BY <2>3, NoChange DEF LifecycleInv
    <3> QED
      BY <1>2, <1>10, <2>1, <2>3, <3>1, StepKeepsInv DEF RegisterTimer
  <2> QED
    BY <1>10, <2>2, <2>3 DEF RegisterTimer
<1>11. CASE Registered(x)
  <2>1. Created(x)
    BY <1>2, <1>11, AtIsCreated DEF Registered
  <2>2. Changes(x, [client[x] EXCEPT !.m_bRegister = TRUE])
    BY <1>1, <1>11 DEF Registered, Changes, ClientRecord
  <2> QED
    BY <1>2, <1>11, <2>1, <2>2, StepKeepsInv DEF Registered
<1>12. CASE StopStep("app", x)
  BY <1>2, <1>12, StopKeepsInv
<1> QED
  BY <1>4, <1>5, <1>6, <1>7, <1>8, <1>9, <1>10, <1>11, <1>12 DEF AppStep

LEMMA TimerKeepsInv ==
  ASSUME LifecycleInv, NEW x \in Client, TimerStep(x)
  PROVE  LifecycleInv'
<1>1. client[x] \in ClientRecord
  BY DEF LifecycleInv, ObjectsOK
<1>2. "timer" \in Threads
  BY DEF Threads
<1>3. CASE Timeout(x)
  <2>1. Created(x)
    BY <1>3 DEF Timeout, LifecycleInv, ServicesOK
  <2>2. Changes(x, [client[x] EXCEPT !.m_enStatus = "TIMEOUT"])
    BY <1>1, <1>3 DEF Timeout, CheckClient, Changes, ClientRecord
  <2>3. GoTo("timer", IF application = "callbacks" /\ Alive(x) THEN StopEntry(x) ELSE "checked", x)
    BY <1>3 DEF Timeout, CheckClient
  <2> QED
    BY <1>2, <1>3, <2>1, <2>2, <2>3, StepKeepsInv DEF Timeout
<1>4. CASE TimeoutCancel(x)
  <2>1. Created(x)
    BY <1>2, <1>4, AtIsCreated DEF TimeoutCancel
  <2>2. Changes(x, client[x])
    BY <1>4, NoChange DEF TimeoutCancel, LifecycleInv
  <2>3. CASE timers' = timers \ {x} /\ GoTo("timer", "cancelled", x)
    BY <1>2, <1>4, <2>1, <2>2, <2>3, StepKeepsInv DEF TimeoutCancel
  <2>4. CASE GoTo("timer", "idle", x) /\ UNCHANGED timers
    BY <1>2, <1>4, <2>1, <2>2, <2>4, StepKeepsInv DEF TimeoutCancel
  <2> QED
    BY <1>4, <2>3, <2>4 DEF TimeoutCancel
<1>5. CASE TimeoutEnds(x)
  <2>1. Created(x)
    BY <1>2, <1>5, AtIsCreated DEF TimeoutEnds
  <2>2. Changes(x, [client[x] EXCEPT !.m_bRegister = FALSE])
    BY <1>1, <1>5 DEF TimeoutEnds, Changes, ClientRecord
  <2> QED
    BY <1>2, <1>5, <2>1, <2>2, StepKeepsInv DEF TimeoutEnds
<1>6. CASE StopStep("timer", x)
  BY <1>2, <1>6, StopKeepsInv
<1> QED
  BY <1>3, <1>4, <1>5, <1>6 DEF TimerStep

LEMMA NetworkKeepsInv ==
  ASSUME LifecycleInv, NEW x \in Client, HandleRecv(x) \/ UdpRecv(x) \/ NetworkStep(x)
  PROVE  LifecycleInv'
<1>1. client[x] \in ClientRecord
  BY DEF LifecycleInv, ObjectsOK
<1>2. x \in Threads
  BY DEF Threads
<1>3. \A pc : pc # "idle" /\ In(x, pc, x) => Created(x)
  BY <1>2, AtIsCreated
<1>4. CASE HandleRecv(x)
  <2>1. Created(x)
    BY <1>4 DEF HandleRecv, LifecycleInv, ServicesOK
  <2>2. Changes(x, [client[x] EXCEPT !.armed = FALSE])
    BY <1>1, <1>4 DEF HandleRecv, Changes, ClientRecord
  <2> QED
    BY <1>2, <1>4, <2>1, <2>2, StepKeepsInv DEF HandleRecv
<1>5. CASE UdpRecv(x)
  <2>1. Created(x)
    BY <1>5 DEF UdpRecv, LifecycleInv, ServicesOK
  <2>2. Changes(x, [client[x] EXCEPT !.udpArmed = FALSE])
    BY <1>1, <1>5 DEF UdpRecv, Changes, ClientRecord
  <2> QED
    BY <1>2, <1>5, <2>1, <2>2, StepKeepsInv DEF UdpRecv
<1>6. CASE RtspReceived(x)
  <2>1. PICK opens \in BOOLEAN :
          /\ client' = [client EXCEPT ![x].armed = TRUE, ![x].silent = FALSE,
                                      ![x].udpArmed = @ \/ opens]
          /\ udp' = IF opens THEN udp \cup {x} ELSE udp
    BY <1>6 DEF RtspReceived
  <2>2. Changes(x, [client[x] EXCEPT !.armed = TRUE, !.silent = FALSE, !.udpArmed = @ \/ opens])
    BY <1>1, <2>1 DEF Changes, ClientRecord
  <2>3. udp' \subseteq udp \cup {x}
    BY <2>1
  <2>4. Created(x)
    BY <1>3, <1>6 DEF RtspReceived
  <2> QED
    BY <1>2, <1>6, <2>2, <2>3, <2>4, StepKeepsInv DEF RtspReceived
<1>7. CASE RtspFailed(x)
  <2>1. Created(x)
    BY <1>3, <1>7 DEF RtspFailed
  <2>2. GoTo(x, "idle", x) /\ UNCHANGED <<timers, network, udp, application>>
    BY <1>7 DEF RtspFailed, TornDown
  <2>3. CASE Alive(x) /\ Deleted(x, "TEARDOWN")
    BY <1>2, <2>2, <2>3, DeletedKeepsInv DEF Alive
  <2>4. CASE client' = [client EXCEPT ![x].m_enStatus = "TEARDOWN"] /\ UNCHANGED m_ClientFreeList
    <3>1. Changes(x, [client[x] EXCEPT !.m_enStatus = "TEARDOWN"])
      BY <1>1, <2>4 DEF Changes, ClientRecord
    <3> QED
      BY <1>2, <2>1, <2>2, <2>4, <3>1, StepKeepsInv
  <2> QED
    BY <1>7, <2>3, <2>4 DEF RtspFailed
<1>8. CASE RtmpReceived(x)
  <2>1. Created(x)
    BY <1>3, <1>8 DEF RtmpReceived
  <2>2. Changes(x, [client[x] EXCEPT !.armed = TRUE, !.silent = FALSE])
    BY <1>1, <1>8 DEF RtmpReceived, Changes, ClientRecord
  <2> QED
    BY <1>2, <1>8, <2>1, <2>2, StepKeepsInv DEF RtmpReceived
<1>9. CASE RtmpEnds(x)
  <2>1. Created(x)
    BY <1>3, <1>9 DEF RtmpEnds
  <2>2. Changes(x, [client[x] EXCEPT !.silent = FALSE])
    BY <1>1, <1>9 DEF RtmpEnds, Changes, ClientRecord
  <2> QED
    BY <1>2, <1>9, <2>1, <2>2, StepKeepsInv DEF RtmpEnds
<1>10. CASE RtmpSkipped(x)
  <2>1. Created(x)
    BY <1>3, <1>10 DEF RtmpSkipped
  <2>2. Changes(x, client[x])
    BY <1>10, NoChange DEF RtmpSkipped, LifecycleInv
  <2> QED
    BY <1>2, <1>10, <2>1, <2>2, StepKeepsInv DEF RtmpSkipped
<1>11. CASE StopStep(x, x)
  BY <1>2, <1>11, StopKeepsInv
<1> QED
  BY <1>4, <1>5, <1>6, <1>7, <1>8, <1>9, <1>10, <1>11 DEF NetworkStep

LEMMA StutterKeepsInv ==
  ASSUME LifecycleInv, UNCHANGED vars
  PROVE  LifecycleInv'
BY DEF LifecycleInv, ObjectsOK, ThreadsOK, ServicesOK, IndexesApart, Owns, OnFreeList,
       Created, Traces, vars

LEMMA LifecycleInvariant == Spec => []LifecycleInv
<1>1. Init => LifecycleInv
  BY InitLifecycle
<1>2. LifecycleInv /\ [Next]_vars => LifecycleInv'
  <2> SUFFICES ASSUME LifecycleInv, [Next]_vars
               PROVE  LifecycleInv'
    OBVIOUS
  <2>1. CASE UNCHANGED vars
    BY <2>1, StutterKeepsInv
  <2>2. ASSUME NEW x \in Client, Create(x)
        PROVE  LifecycleInv'
    BY <2>2, CreateKeepsInv
  <2>3. ASSUME NEW x \in Client,
               StartRtsp(x) \/ StartRtmp(x) \/ Stop(x) \/ Destroy(x) \/ Silence(x) \/ AppStep(x)
        PROVE  LifecycleInv'
    BY <2>3, AppKeepsInv
  <2>4. ASSUME NEW x \in Client, TimerStep(x)
        PROVE  LifecycleInv'
    BY <2>4, TimerKeepsInv
  <2>5. ASSUME NEW x \in Client, HandleRecv(x) \/ UdpRecv(x) \/ NetworkStep(x)
        PROVE  LifecycleInv'
    BY <2>5, NetworkKeepsInv
  <2> QED
    BY <2>1, <2>2, <2>3, <2>4, <2>5 DEF Next
<1> QED
  BY <1>1, <1>2, PTL DEF Spec

-----------------------------------------------------------------------------
(* What follows.                                                           *)

\* The variables of the clients, the threads and the services keep their types:
\* no thread is ever with a client that was not created.
THEOREM TypeCorrect == Spec => []TypeOK
<1>1. LifecycleInv => TypeOK
  BY DEF LifecycleInv, ObjectsOK, ThreadsOK, ServicesOK, IndexesApart, TypeOK
<1> QED
  BY <1>1, LifecycleInvariant, PTL

LEMMA ApartCounts ==
  ASSUME LifecycleInv
  PROVE  IndexesOwnedOnce
<1> SUFFICES ASSUME NEW i \in Index
             PROVE  Cardinality({ k \in DOMAIN m_ClientFreeList : m_ClientFreeList[k] = i })
                      + Cardinality({ x \in Client : Alive(x) /\ client[x].m_ulIndex = i }) = 1
  BY DEF IndexesOwnedOnce
<1> DEFINE F == { k \in DOMAIN m_ClientFreeList : m_ClientFreeList[k] = i }
           O == { x \in Client : Alive(x) /\ client[x].m_ulIndex = i }
<1>1. \A x : x \in O <=> x \in Client /\ Owns(x, i)
  BY DEF Owns, Alive
<1>2. CASE OnFreeList(i)
  <2>1. PICK k \in DOMAIN m_ClientFreeList : F = {k}
    BY <1>2 DEF OnFreeList, LifecycleInv, IndexesApart
  <2>2. O = {}
    BY <1>1, <1>2 DEF LifecycleInv, IndexesApart
  <2> HIDE DEF F, O
  <2>3. Cardinality(F) = 1 /\ Cardinality(O) = 0
    BY <2>1, <2>2, FS_Singleton, FS_EmptySet
  <2> QED
    BY <2>3 DEF F, O
<1>3. CASE ~OnFreeList(i)
  <2>1. F = {}
    BY <1>3 DEF OnFreeList
  <2>2. PICK x \in Client : Owns(x, i)
    BY <1>3 DEF LifecycleInv, IndexesApart
  <2>3. \A y \in O : y = x
    BY <1>1, <2>2 DEF LifecycleInv, IndexesApart
  <2>4. O = {x}
    BY <1>1, <2>2, <2>3
  <2> HIDE DEF F, O
  <2>5. Cardinality(F) = 0 /\ Cardinality(O) = 1
    BY <2>1, <2>4, FS_Singleton, FS_EmptySet
  <2> QED
    BY <2>5 DEF F, O
<1> QED
  BY <1>2, <1>3

\* Every index of a client is on the free list, once, or with one client: however
\* the threads interleave and wherever a client is destroyed, create_client never
\* gives two clients the same index and destory_client never loses one.
THEOREM EveryIndexOwnedOnce == Spec => []IndexesOwnedOnce
<1>1. LifecycleInv => IndexesOwnedOnce
  BY ApartCounts
<1> QED
  BY <1>1, LifecycleInvariant, PTL

-----------------------------------------------------------------------------
(***************************************************************************)
(* The proof that an application which stops its clients in its own thread *)
(* may destroy them: when stop_recv has returned no thread is in the       *)
(* client, and none will ever be, for any number of clients and any        *)
(* interleaving of start, stop, the timer and the network.  The last part  *)
(* is about the handle of an RTMP client, for either kind of application.  *)
(*                                                                         *)
(* The theorems are about an as_common whose cancelTimer and removeTcpClient*)
(* wait for a running callback (the constant Waits).                       *)
(***************************************************************************)

OwnThread == application = "own_thread"

\* Where the threads of such an application may be.
PlacesOK ==
  /\ at["app"] = Idle \/ at["app"].pc \in {"options", "timer", "registered", "cancel",
                                           "disarm", "remove", "release"}
  /\ at["timer"] = Idle \/ at["timer"].pc \in {"checked", "cancelled"}
  /\ \A x \in Client : at[x] = Idle \/ (at[x].x = x /\ at[x].pc \in {"recv", "delivered"})

AppIn(S, x) == at["app"].x = x /\ at["app"].pc \in S

\* The timer does not know the client, and is not in it.
NoTimer(x) == x \notin timers /\ at["timer"].x # x

\* What stop_recv relies on when it looks at m_bRegister, and what it reaches.
Quiet(x) ==
  /\ Created(x) => client[x].alive \/ client[x].stopped
  /\ client[x].stopped => client[x].started
  /\ at["app"].x = x => client[x].started /\ ~client[x].stopped
  /\ ~client[x].started \/ AppIn({"options", "timer"}, x) => NoTimer(x)
  /\ NoTimer(x) \/ client[x].m_bRegister \/ AppIn({"registered"}, x)
  /\ at["timer"].x = x /\ at["timer"].pc = "cancelled" => x \notin timers
  /\ client[x].stopped \/ AppIn({"disarm", "remove", "release"}, x) => NoTimer(x)
  /\ ~client[x].started \/ client[x].stopped \/ AppIn({"release"}, x)
       => x \notin network /\ at[x] = Idle

QuietInv == OwnThread => PlacesOK /\ \A x \in Client : Quiet(x)

-----------------------------------------------------------------------------
(* A step is about one client: the others stay quiet.                      *)

\* Thread t goes from a place in x, or from nowhere, to such a place.
Moves(t, p, x) ==
  /\ at' = [at EXCEPT ![t] = p]
  /\ at[t] = Idle \/ at[t].x = x
  /\ p = Idle \/ p.x = x

StepAbout(x) ==
  /\ \A y \in Client \ {x} : client'[y] = client[y]
  /\ timers \ {x} = timers' \ {x} /\ network \ {x} = network' \ {x}
  /\ UNCHANGED application

LEMMA ThreadsApart ==
  /\ "app" \in Threads /\ "timer" \in Threads /\ Client \subseteq Threads
  /\ "app" \notin Client /\ "timer" \notin Client /\ "app" # "timer"
  /\ Idle.x \notin Client /\ Idle.x = Nobody /\ Idle.pc = "idle"
BY LifecycleConstants DEF Threads, Idle

LEMMA OthersQuiet ==
  ASSUME LifecycleInv, QuietInv, OwnThread, NEW x \in Client, StepAbout(x),
         NEW t \in {"app", "timer", x}, NEW p, UNCHANGED at \/ Moves(t, p, x),
         NEW y \in Client \ {x}
  PROVE  Quiet(y)'
<1>1. /\ client'[y] = client[y]
      /\ y \in timers' <=> y \in timers
      /\ y \in network' <=> y \in network
  BY DEF StepAbout
<1>2. at'[y] = at[y]
  BY ThreadsApart DEF Moves, LifecycleInv, ThreadsOK
<1>3. \A u \in {"app", "timer"} : at'[u] = at[u] \/ (at[u].x # y /\ at'[u].x # y)
  BY ThreadsApart DEF Moves, LifecycleInv, ThreadsOK
<1>4. Quiet(y)
  BY DEF QuietInv
<1>5. Created(y)' <=> Created(y)
  BY <1>1 DEF Created
<1>6. /\ at'["app"].x = y <=> at["app"].x = y
      /\ at["app"].x = y => at'["app"] = at["app"]
      /\ at'["timer"].x = y <=> at["timer"].x = y
      /\ at["timer"].x = y => at'["timer"] = at["timer"]
  BY <1>3
<1>7. NoTimer(y)' <=> NoTimer(y)
  BY <1>1, <1>6 DEF NoTimer
<1>8. \A S : AppIn(S, y)' <=> AppIn(S, y)
  BY <1>6 DEF AppIn
<1> QED
  BY <1>1, <1>2, <1>4, <1>5, <1>6, <1>7, <1>8 DEF Quiet

LEMMA QuietStep ==
  ASSUME LifecycleInv, QuietInv, OwnThread, NEW x \in Client, StepAbout(x),
         NEW t \in {"app", "timer", x}, NEW p, UNCHANGED at \/ Moves(t, p, x),
         PlacesOK', Quiet(x)'
  PROVE  QuietInv'
BY OthersQuiet DEF QuietInv

LEMMA MovesKeepPlaces ==
  ASSUME LifecycleInv, PlacesOK, NEW x \in Client, NEW t \in {"app", "timer", x}, NEW p,
         Moves(t, p, x),
         \/ p = Idle
         \/ t = "app" /\ p.pc \in {"options", "timer", "registered", "cancel",
                                   "disarm", "remove", "release"}
         \/ t = "timer" /\ p.pc \in {"checked", "cancelled"}
         \/ t = x /\ p.x = x /\ p.pc \in {"recv", "delivered"}
  PROVE  PlacesOK'
<1>1. \A u \in Threads : at'[u] = IF u = t THEN p ELSE at[u]
  BY ThreadsApart DEF Moves, LifecycleInv, ThreadsOK
<1>2. /\ at'["app"] = IF t = "app" THEN p ELSE at["app"]
      /\ at'["timer"] = IF t = "timer" THEN p ELSE at["timer"]
      /\ \A y \in Client : at'[y] = IF y = t THEN p ELSE at[y]
  BY <1>1, ThreadsApart
<1> QED
  BY <1>2, ThreadsApart DEF PlacesOK

LEMMA GoToMoves ==
  ASSUME LifecycleInv, NEW x \in Client, NEW t \in {"app", "timer", x}, NEW pc,
         GoTo(t, pc, x), at[t] = Idle \/ at[t].x = x
  PROVE  /\ Moves(t, IF pc = "idle" THEN Idle ELSE [pc |-> pc, x |-> x], x)
         /\ \A u \in Threads \ {t} : at'[u] = at[u]
         /\ pc = "idle" => at'[t] = Idle
         /\ pc # "idle" => at'[t].x = x /\ at'[t].pc = pc
BY ThreadsApart DEF GoTo, Moves, LifecycleInv, ThreadsOK

LEMMA AppGoes ==
  ASSUME LifecycleInv, NEW x \in Client, NEW pc, GoTo("app", pc, x),
         at["app"] = Idle \/ at["app"].x = x
  PROVE  /\ at'["timer"] = at["timer"] /\ at'[x] = at[x]
         /\ pc = "idle" => at'["app"] = Idle
         /\ pc # "idle" => at'["app"].x = x /\ at'["app"].pc = pc
<1>1. "app" \in {"app", "timer", x} /\ "timer" \in Threads \ {"app"} /\ x \in Threads \ {"app"}
  BY ThreadsApart
<1> QED
  BY <1>1, GoToMoves

-----------------------------------------------------------------------------
(* The application's calls.                                                *)

LEMMA QuietApp ==
  ASSUME LifecycleInv, QuietInv, OwnThread, NEW x \in Client, NEW pc,
         pc \in {"idle", "options", "timer", "registered", "cancel", "disarm", "remove", "release"},
         at["app"] = Idle \/ at["app"].x = x, GoTo("app", pc, x),
         StepAbout(x), Quiet(x)'
  PROVE  QuietInv'
<1> DEFINE p == IF pc = "idle" THEN Idle ELSE [pc |-> pc, x |-> x]
<1>1. Moves("app", p, x)
  BY GoToMoves
<1>2. p = Idle \/ p.pc \in {"options", "timer", "registered", "cancel",
                            "disarm", "remove", "release"}
  OBVIOUS
<1> HIDE DEF p
<1>3. PlacesOK'
  BY <1>1, <1>2, MovesKeepPlaces DEF QuietInv
<1> QED
  BY <1>1, <1>3, QuietStep

\* The object in an action that is about it.
LEMMA Updated ==
  ASSUME LifecycleInv, NEW x \in Client, NEW r, client' = [client EXCEPT ![x] = r]
  PROVE  /\ client'[x] = r /\ client[x] \in ClientRecord
         /\ \A y \in Client \ {x} : client'[y] = client[y]
BY DEF LifecycleInv, ObjectsOK

LEMMA StartQuiet ==
  ASSUME LifecycleInv, QuietInv, OwnThread, NEW x \in Client, StartRtsp(x) \/ StartRtmp(x)
  PROVE  QuietInv'
<1>1. /\ at["app"] = Idle /\ client[x].alive /\ ~client[x].started
      /\ UNCHANGED <<timers, udp, application>>
      /\ network' \subseteq network \cup {x} /\ network \subseteq network'
  BY DEF StartRtsp, StartRtmp, Alive
<1>2. \/ client' = [client EXCEPT ![x] = [client[x] EXCEPT !.started = TRUE]]
      \/ client' = [client EXCEPT ![x] = [client[x] EXCEPT !.started = TRUE, !.armed = TRUE,
                                                        !.m_rtmpHandle = TRUE]]
  BY DEF StartRtsp, StartRtmp, LifecycleInv, ObjectsOK
<1>3. /\ \A y \in Client \ {x} : client'[y] = client[y]
      /\ client'[x].started /\ client'[x].alive
      /\ client'[x].stopped = client[x].stopped
  <2>1. client[x] \in ClientRecord
    BY DEF LifecycleInv, ObjectsOK
  <2>2. PICK r : /\ client' = [client EXCEPT ![x] = r]
                 /\ r.started /\ r.alive /\ r.stopped = client[x].stopped
    <3>1. ASSUME NEW q \in ClientRecord, q.alive
          PROVE  LET r == [q EXCEPT !.started = TRUE]
                     u == [q EXCEPT !.started = TRUE, !.armed = TRUE, !.m_rtmpHandle = TRUE]
                 IN  /\ r.started /\ r.alive /\ r.stopped = q.stopped
                     /\ u.started /\ u.alive /\ u.stopped = q.stopped
      BY <3>1 DEF ClientRecord
    <3> QED
      BY <1>1, <1>2, <2>1, <3>1
  <2> QED
    BY <2>2, Updated
<1>4. StepAbout(x)
  BY <1>1, <1>3 DEF StepAbout
<1>5. Quiet(x)
  BY DEF QuietInv
<1>6. ~client'[x].stopped /\ NoTimer(x)
  BY <1>1, <1>3, <1>5 DEF Quiet
<1>7. CASE UNCHANGED at
  <2>1. Quiet(x)'
    BY <1>1, <1>3, <1>6, <1>7, ThreadsApart DEF Quiet, AppIn, NoTimer
  <2>2. PlacesOK'
    BY <1>7 DEF QuietInv, PlacesOK
  <2> QED
    BY <1>4, <1>7, <2>1, <2>2, QuietStep
<1>8. ASSUME NEW pc \in {"options", "timer"}, GoTo("app", pc, x)
      PROVE  QuietInv'
  <2>1. /\ at'["app"].x = x /\ at'["app"].pc = pc
        /\ at'["timer"] = at["timer"] /\ at'[x] = at[x]
    BY <1>1, <1>8, AppGoes
  <2>2. Quiet(x)'
    BY <1>1, <1>3, <1>6, <2>1 DEF Quiet, AppIn, NoTimer
  <2> QED
    BY <1>1, <1>4, <1>8, <2>2, QuietApp
<1> QED
  BY <1>7, <1>8 DEF StartRtsp, StartRtmp

\* What a client is to stop_recv and to the timer.
SameLife(x) ==
  /\ client'[x].alive = client[x].alive /\ client'[x].started = client[x].started
  /\ client'[x].stopped = client[x].stopped

SameRegister(x) == client'[x].m_bRegister = client[x].m_bRegister

OthersSame(x) == \A y \in Client \ {x} : client'[y] = client[y]

\* The fields that do not matter here.
LEMMA OtherFields ==
  ASSUME LifecycleInv, NEW x \in Client, NEW v \in BOOLEAN,
         \/ UNCHANGED client
         \/ client' = [client EXCEPT ![x].silent = v]
         \/ client' = [client EXCEPT ![x].armed = v]
         \/ client' = [client EXCEPT ![x].udpArmed = v]
         \/ client' = [client EXCEPT ![x].m_enStatus = "TEARDOWN"]
         \/ client' = [client EXCEPT ![x].m_enStatus = "TIMEOUT"]
         \/ client' = [client EXCEPT ![x].armed = TRUE, ![x].silent = FALSE]
         \/ client' = [client EXCEPT ![x].armed = TRUE, ![x].silent = FALSE, ![x].udpArmed = v]
  PROVE  SameLife(x) /\ SameRegister(x) /\ OthersSame(x)
<1> DEFINE Same(r, q) == /\ r.alive = q.alive /\ r.started = q.started
                         /\ r.stopped = q.stopped /\ r.m_bRegister = q.m_bRegister
<1>1. client[x] \in ClientRecord
  BY DEF LifecycleInv, ObjectsOK
<1>2. ASSUME NEW q \in ClientRecord
      PROVE  /\ Same(q, q)
             /\ Same([q EXCEPT !.silent = v], q)
             /\ Same([q EXCEPT !.armed = v], q)
             /\ Same([q EXCEPT !.udpArmed = v], q)
             /\ Same([q EXCEPT !.m_enStatus = "TEARDOWN"], q)
             /\ Same([q EXCEPT !.m_enStatus = "TIMEOUT"], q)
             /\ Same([q EXCEPT !.armed = TRUE, !.silent = FALSE], q)
             /\ Same([q EXCEPT !.armed = TRUE, !.silent = FALSE, !.udpArmed = v], q)
  BY DEF ClientRecord
<1>3. \/ client'[x] = client[x]
      \/ client'[x] = [client[x] EXCEPT !.silent = v]
      \/ client'[x] = [client[x] EXCEPT !.armed = v]
      \/ client'[x] = [client[x] EXCEPT !.udpArmed = v]
      \/ client'[x] = [client[x] EXCEPT !.m_enStatus = "TEARDOWN"]
      \/ client'[x] = [client[x] EXCEPT !.m_enStatus = "TIMEOUT"]
      \/ client'[x] = [client[x] EXCEPT !.armed = TRUE, !.silent = FALSE]
      \/ client'[x] = [client[x] EXCEPT !.armed = TRUE, !.silent = FALSE, !.udpArmed = v]
  BY Zenon DEF LifecycleInv, ObjectsOK
<1>4. OthersSame(x)
  BY DEF LifecycleInv, ObjectsOK, OthersSame
<1>5. Same(client'[x], client[x])
  <2> HIDE DEF Same
  <2> QED
    BY <1>1, <1>2, <1>3, Zenon
<1> QED
  BY <1>4, <1>5 DEF SameLife, SameRegister

LEMMA RegisterField ==
  ASSUME LifecycleInv, NEW x \in Client, NEW v \in BOOLEAN,
         client' = [client EXCEPT ![x].m_bRegister = v]
  PROVE  SameLife(x) /\ OthersSame(x) /\ client'[x].m_bRegister = v
<1>1. client[x] \in ClientRecord
  BY DEF LifecycleInv, ObjectsOK
<1>2. ASSUME NEW q \in ClientRecord
      PROVE  LET r == [q EXCEPT !.m_bRegister = v]
             IN  /\ r.alive = q.alive /\ r.started = q.started
                 /\ r.stopped = q.stopped /\ r.m_bRegister = v
  BY DEF ClientRecord
<1>3. client'[x] = [client[x] EXCEPT !.m_bRegister = v] /\ OthersSame(x)
  BY DEF OthersSame, LifecycleInv, ObjectsOK
<1> QED
  BY <1>1, <1>2, <1>3 DEF SameLife

LEMMA StoppedField ==
  ASSUME LifecycleInv, NEW x \in Client,
         client' = [client EXCEPT ![x].m_rtmpHandle = FALSE, ![x].stopped = @ \/ "app" = "app"]
  PROVE  /\ client'[x].alive = client[x].alive /\ client'[x].started = client[x].started
         /\ client'[x].stopped /\ SameRegister(x) /\ OthersSame(x)
<1>1. client[x] \in ClientRecord
  BY DEF LifecycleInv, ObjectsOK
<1>2. ASSUME NEW q \in ClientRecord
      PROVE  LET r == [q EXCEPT !.m_rtmpHandle = FALSE, !.stopped = @ \/ "app" = "app"]
             IN  /\ r.alive = q.alive /\ r.started = q.started
                 /\ r.stopped /\ r.m_bRegister = q.m_bRegister
  BY DEF ClientRecord
<1>3. /\ client'[x] = [client[x] EXCEPT !.m_rtmpHandle = FALSE, !.stopped = @ \/ "app" = "app"]
      /\ OthersSame(x)
  BY DEF OthersSame, LifecycleInv, ObjectsOK
<1> QED
  BY <1>1, <1>2, <1>3 DEF SameRegister

\* What is known of a client whose start or stop the application is in.
LEMMA AppInside ==
  ASSUME LifecycleInv, QuietInv, OwnThread, NEW x \in Client, NEW pc, pc # "idle",
         In("app", pc, x)
  PROVE  /\ at["app"].x = x /\ at["app"].pc = pc /\ Created(x) /\ Quiet(x)
         /\ client[x].started /\ ~client[x].stopped /\ client[x].alive
<1>1. at["app"].x = x /\ at["app"].pc = pc /\ Created(x)
  BY AtIsCreated, ThreadsApart DEF In
<1>2. Quiet(x)
  BY DEF QuietInv
<1> QED
  BY <1>1, <1>2 DEF Quiet

LEMMA AppStepQuiet ==
  ASSUME LifecycleInv, QuietInv, OwnThread, NEW x \in Client,
         StartOptions(x) \/ RegisterTimer(x) \/ Registered(x)
  PROVE  QuietInv'
<1>1. CASE StartOptions(x)
  <2>1. In("app", "options", x) /\ UNCHANGED <<timers, network, udp, application>>
    BY <1>1 DEF StartOptions
  <2>2. SameLife(x) /\ SameRegister(x) /\ OthersSame(x)
    <3>1. client' = client \/ client' = [client EXCEPT ![x].armed = TRUE]
      BY <1>1 DEF StartOptions
    <3> QED
      BY <3>1, OtherFields, Zenon
  <2>3. PICK pc \in {"idle", "timer"} : GoTo("app", pc, x)
    BY <1>1 DEF StartOptions
  <2>4. /\ at["app"].x = x /\ at["app"].pc = "options" /\ Quiet(x)
        /\ client[x].started /\ ~client[x].stopped /\ client[x].alive
    BY <2>1, AppInside
  <2>5. /\ at'["timer"] = at["timer"] /\ at'[x] = at[x]
        /\ pc = "idle" => at'["app"] = Idle
        /\ pc # "idle" => at'["app"].x = x /\ at'["app"].pc = pc
    BY <2>3, <2>4, AppGoes
  <2>6. StepAbout(x)
    BY <2>1, <2>2 DEF StepAbout, OthersSame
  <2>7. Quiet(x)'
    BY <2>1, <2>2, <2>3, <2>4, <2>5, ThreadsApart DEF Quiet, AppIn, NoTimer, SameLife, SameRegister
  <2> QED
    BY <2>3, <2>4, <2>6, <2>7, QuietApp
<1>2. CASE RegisterTimer(x)
  <2>1. In("app", "timer", x) /\ UNCHANGED <<network, udp, application>>
    BY <1>2 DEF RegisterTimer
  <2>2. /\ at["app"].x = x /\ at["app"].pc = "timer" /\ Quiet(x) /\ NoTimer(x)
        /\ client[x].started /\ ~client[x].stopped /\ client[x].alive
    BY <2>1, AppInside DEF Quiet, AppIn
  <2>3. CASE /\ client' = [client EXCEPT ![x].m_bRegister = FALSE]
             /\ GoTo("app", "idle", x)
             /\ UNCHANGED timers
    <3>1. SameLife(x) /\ OthersSame(x)
      BY <2>3, RegisterField
    <3>2. at'["app"] = Idle /\ at'["timer"] = at["timer"] /\ at'[x] = at[x]
      BY <2>2, <2>3, AppGoes
    <3>3. StepAbout(x)
      BY <2>1, <2>3, <3>1 DEF StepAbout, OthersSame
    <3>4. Quiet(x)'
      BY <2>1, <2>2, <2>3, <3>1, <3>2, ThreadsApart DEF Quiet, AppIn, NoTimer, SameLife
    <3> QED
      BY <2>2, <2>3, <3>3, <3>4, QuietApp
  <2>4. CASE timers' = timers \cup {x} /\ GoTo("app", "registered", x) /\ UNCHANGED client
    <3>1. /\ at'["app"].x = x /\ at'["app"].pc = "registered"
          /\ at'["timer"] = at["timer"] /\ at'[x] = at[x]
      BY <2>2, <2>4, AppGoes
    <3>2. StepAbout(x)
      BY <2>1, <2>4 DEF StepAbout
    <3>3. Quiet(x)'
      BY <2>1, <2>2, <2>4, <3>1, ThreadsApart DEF Quiet, AppIn, NoTimer
    <3> QED
      BY <2>2, <2>4, <3>2, <3>3, QuietApp
  <2> QED
    BY <1>2, <2>3, <2>4 DEF RegisterTimer
<1>3. CASE Registered(x)
  <2>1. In("app", "registered", x) /\ UNCHANGED <<timers, network, udp, application>>
    BY <1>3 DEF Registered
  <2>2. SameLife(x) /\ OthersSame(x) /\ client'[x].m_bRegister = TRUE
    BY <1>3, RegisterField DEF Registered
  <2>3. /\ at["app"].x = x /\ at["app"].pc = "registered" /\ Quiet(x)
        /\ client[x].started /\ ~client[x].stopped /\ client[x].alive
    BY <2>1, AppInside
  <2>4. at'["app"] = Idle /\ at'["timer"] = at["timer"] /\ at'[x] = at[x] /\ GoTo("app", "idle", x)
    BY <1>3, <2>3, AppGoes DEF Registered
  <2>5. StepAbout(x)
    BY <2>1, <2>2 DEF StepAbout, OthersSame
  <2>6. Quiet(x)'
    BY <2>1, <2>2, <2>3, <2>4, ThreadsApart DEF Quiet, AppIn, NoTimer, SameLife
  <2> QED
    BY <2>3, <2>4, <2>5, <2>6, QuietApp
<1> QED
  BY <1>1, <1>2, <1>3

LEMMA StopsQuiet ==
  ASSUME LifecycleInv, QuietInv, OwnThread, Waits, NEW x \in Client,
         Stop(x) \/ StopStep("app", x)
  PROVE  QuietInv'
<1>1. CASE Stop(x)
  <2>1. /\ at["app"] = Idle /\ client[x].alive /\ client[x].started /\ ~client[x].stopped
        /\ UNCHANGED <<client, timers, network, udp, application>>
    BY <1>1 DEF Stop, Alive
  <2>2. PICK pc \in {"cancel", "disarm"} :
          GoTo("app", pc, x) /\ (pc = "disarm" => ~client[x].m_bRegister)
    BY <1>1 DEF Stop, StopEntry
  <2>3. /\ at'["timer"] = at["timer"] /\ at'[x] = at[x]
        /\ at'["app"].x = x /\ at'["app"].pc = pc
    BY <2>1, <2>2, AppGoes
  <2>4. Quiet(x) /\ at["app"].x # x
    BY <2>1, ThreadsApart DEF QuietInv
  <2>5. pc = "disarm" => NoTimer(x)
    BY <2>2, <2>4 DEF Quiet, AppIn
  <2>6. StepAbout(x)
    BY <2>1 DEF StepAbout
  <2>7. Quiet(x)'
    BY <2>1, <2>2, <2>3, <2>4, <2>5 DEF Quiet, AppIn, NoTimer
  <2> QED
    BY <2>1, <2>2, <2>6, <2>7, QuietApp
<1>2. CASE StopCancel("app", x)
  <2>1. /\ In("app", "cancel", x) /\ GoTo("app", "disarm", x) /\ timers' = timers \ {x}
        /\ UNCHANGED <<network, udp, application>>
    BY <1>2 DEF StopCancel
  <2>2. at["timer"].x # x
    BY <1>2, ThreadsApart DEF StopCancel, TimerFree
  <2>3. SameLife(x) /\ OthersSame(x)
    BY <1>2, RegisterField DEF StopCancel
  <2>4. /\ at["app"].x = x /\ at["app"].pc = "cancel" /\ Quiet(x)
        /\ client[x].started /\ ~client[x].stopped /\ client[x].alive
    BY <2>1, AppInside
  <2>5. /\ at'["timer"] = at["timer"] /\ at'[x] = at[x]
        /\ at'["app"].x = x /\ at'["app"].pc = "disarm"
    BY <2>1, <2>4, AppGoes
  <2>6. StepAbout(x)
    BY <2>1, <2>3 DEF StepAbout, OthersSame
  <2>7. Quiet(x)'
    BY <2>1, <2>2, <2>3, <2>4, <2>5 DEF Quiet, AppIn, NoTimer, SameLife
  <2> QED
    BY <2>1, <2>4, <2>6, <2>7, QuietApp
<1>3. CASE StopDisarm("app", x)
  <2>1. /\ In("app", "disarm", x) /\ GoTo("app", "remove", x)
        /\ UNCHANGED <<timers, network, udp, application>>
    BY <1>3 DEF StopDisarm
  <2>2. SameLife(x) /\ SameRegister(x) /\ OthersSame(x)
    <3>1. PICK v \in BOOLEAN : client' = [client EXCEPT ![x].armed = v]
      <4>1. (client[x].armed /\ Is(x, "rtmp")) \in BOOLEAN
        OBVIOUS
      <4> QED
        BY <1>3, <4>1 DEF StopDisarm
    <3> QED
      BY <3>1, OtherFields
  <2>3. /\ at["app"].x = x /\ at["app"].pc = "disarm" /\ Quiet(x)
        /\ client[x].started /\ ~client[x].stopped /\ client[x].alive
    BY <2>1, AppInside
  <2>4. /\ at'["timer"] = at["timer"] /\ at'[x] = at[x]
        /\ at'["app"].x = x /\ at'["app"].pc = "remove"
    BY <2>1, <2>3, AppGoes
  <2>5. StepAbout(x)
    BY <2>1, <2>2 DEF StepAbout, OthersSame
  <2>6. Quiet(x)'
    BY <2>1, <2>2, <2>3, <2>4 DEF Quiet, AppIn, NoTimer, SameLife, SameRegister
  <2> QED
    BY <2>1, <2>3, <2>5, <2>6, QuietApp
<1>4. CASE StopRemove("app", x)
  <2>1. /\ In("app", "remove", x) /\ GoTo("app", "release", x) /\ network' = network \ {x}
        /\ UNCHANGED <<client, timers, udp, application>>
    BY <1>4 DEF StopRemove
  <2>2. at[x] = Idle
    BY <1>4, ThreadsApart DEF StopRemove, NetworkFree
  <2>3. /\ at["app"].x = x /\ at["app"].pc = "remove" /\ Quiet(x)
        /\ client[x].started /\ ~client[x].stopped /\ client[x].alive
    BY <2>1, AppInside
  <2>4. /\ at'["timer"] = at["timer"] /\ at'[x] = at[x]
        /\ at'["app"].x = x /\ at'["app"].pc = "release"
    BY <2>1, <2>3, AppGoes
  <2>5. StepAbout(x)
    BY <2>1 DEF StepAbout
  <2>6. Quiet(x)'
    BY <2>1, <2>2, <2>3, <2>4 DEF Quiet, AppIn, NoTimer
  <2> QED
    BY <2>1, <2>3, <2>5, <2>6, QuietApp
<1>5. CASE StopRelease("app", x)
  <2>1. /\ In("app", "release", x) /\ GoTo("app", "idle", x)
        /\ UNCHANGED <<timers, network, udp, application>>
    BY <1>5 DEF StopRelease
  <2>2. /\ client'[x].alive = client[x].alive /\ client'[x].started = client[x].started
        /\ client'[x].stopped /\ SameRegister(x) /\ OthersSame(x)
    BY <1>5, StoppedField DEF StopRelease
  <2>3. /\ at["app"].x = x /\ at["app"].pc = "release" /\ Quiet(x)
        /\ client[x].started /\ ~client[x].stopped /\ client[x].alive
    BY <2>1, AppInside
  <2>4. at'["timer"] = at["timer"] /\ at'[x] = at[x] /\ at'["app"] = Idle
    BY <2>1, <2>3, AppGoes
  <2>5. StepAbout(x)
    BY <2>1, <2>2 DEF StepAbout, OthersSame
  <2>6. Quiet(x)'
    BY <2>1, <2>2, <2>3, <2>4, ThreadsApart DEF Quiet, AppIn, NoTimer, SameRegister
  <2> QED
    BY <2>1, <2>3, <2>5, <2>6, QuietApp
<1> QED
  BY <1>1, <1>2, <1>3, <1>4, <1>5 DEF StopStep

LEMMA SilenceQuiet ==
  ASSUME LifecycleInv, QuietInv, OwnThread, NEW x \in Client, Silence(x)
  PROVE  QuietInv'
<1>1. UNCHANGED <<at, timers, network, udp, application>>
  BY DEF Silence
<1>2. SameLife(x) /\ SameRegister(x) /\ OthersSame(x)
  BY OtherFields DEF Silence
<1>3. StepAbout(x) /\ PlacesOK'
  BY <1>1, <1>2 DEF StepAbout, OthersSame, QuietInv, PlacesOK
<1>4. Quiet(x) /\ client[x].alive
  BY DEF QuietInv, Silence, Alive
<1>5. Quiet(x)'
  BY <1>1, <1>2, <1>4 DEF Quiet, AppIn, NoTimer, SameLife, SameRegister
<1> QED
  BY <1>1, <1>3, <1>5, ThreadsApart, QuietStep

LEMMA CreateQuiet ==
  ASSUME LifecycleInv, QuietInv, OwnThread, NEW x \in Client, Create(x)
  PROVE  QuietInv'
<1>1. /\ ~Created(x) /\ at["app"] = Idle /\ UNCHANGED <<at, timers, network, udp, application>>
  BY DEF Create
<1>2. /\ \A y \in Client \ {x} : client'[y] = client[y]
      /\ client'[x].alive /\ ~client'[x].started /\ ~client'[x].stopped
  BY DEF Create, NewClient, LifecycleInv, ObjectsOK
<1>3. StepAbout(x) /\ PlacesOK'
  BY <1>1, <1>2 DEF StepAbout, QuietInv, PlacesOK
<1>4. ~client[x].started
  BY <1>1 DEF Created, NotCreated, NewClient
<1>5. NoTimer(x) /\ x \notin network /\ at[x] = Idle
  BY <1>4 DEF QuietInv, Quiet
<1>6. Quiet(x)'
  BY <1>1, <1>2, <1>5, ThreadsApart DEF Quiet, AppIn, NoTimer
<1> QED
  BY <1>1, <1>3, <1>6, ThreadsApart, QuietStep

LEMMA DestroyQuiet ==
  ASSUME LifecycleInv, QuietInv, OwnThread, NEW x \in Client, Destroy(x)
  PROVE  QuietInv'
<1>1. /\ at["app"] = Idle /\ client[x].stopped
      /\ UNCHANGED <<at, timers, network, udp, application>>
  BY DEF Destroy
<1>2. /\ OthersSame(x) /\ client'[x].started = client[x].started
      /\ client'[x].stopped = client[x].stopped
  <2>1. client'[x] = [client[x] EXCEPT !.alive = FALSE, !.m_enStatus = client[x].m_enStatus]
    BY DEF Destroy, Deleted, LifecycleInv, ObjectsOK
  <2>2. client[x] \in ClientRecord
    BY DEF LifecycleInv, ObjectsOK
  <2>3. ASSUME NEW q \in ClientRecord, NEW e
        PROVE  LET r == [q EXCEPT !.alive = FALSE, !.m_enStatus = e]
               IN  r.started = q.started /\ r.stopped = q.stopped
    BY DEF ClientRecord
  <2>4. OthersSame(x)
    BY DEF Destroy, Deleted, LifecycleInv, ObjectsOK, OthersSame
  <2> QED
    BY <2>1, <2>2, <2>3, <2>4
<1>3. StepAbout(x) /\ PlacesOK'
  BY <1>1, <1>2 DEF StepAbout, OthersSame, QuietInv, PlacesOK
<1>4. Quiet(x)
  BY DEF QuietInv
<1>5. NoTimer(x) /\ x \notin network /\ at[x] = Idle /\ client[x].started
  BY <1>1, <1>4 DEF Quiet
<1>6. Quiet(x)'
  BY <1>1, <1>2, <1>5, ThreadsApart DEF Quiet, AppIn, NoTimer
<1> QED
  BY <1>1, <1>3, <1>6, ThreadsApart, QuietStep

-----------------------------------------------------------------------------
(* The timer and the network.                                              *)

LEMMA TimerGoes ==
  ASSUME LifecycleInv, NEW x \in Client, NEW pc, GoTo("timer", pc, x),
         at["timer"] = Idle \/ at["timer"].x = x
  PROVE  /\ at'["app"] = at["app"] /\ at'[x] = at[x]
         /\ pc = "idle" => at'["timer"] = Idle
         /\ pc # "idle" => at'["timer"].x = x /\ at'["timer"].pc = pc
<1>1. "timer" \in {"app", "timer", x} /\ "app" \in Threads \ {"timer"} /\ x \in Threads \ {"timer"}
  BY ThreadsApart
<1> QED
  BY <1>1, GoToMoves

LEMMA QuietTimer ==
  ASSUME LifecycleInv, QuietInv, OwnThread, NEW x \in Client, NEW pc,
         pc \in {"idle", "checked", "cancelled"},
         at["timer"] = Idle \/ at["timer"].x = x, GoTo("timer", pc, x),
         StepAbout(x), Quiet(x)'
  PROVE  QuietInv'
<1> DEFINE p == IF pc = "idle" THEN Idle ELSE [pc |-> pc, x |-> x]
<1>1. Moves("timer", p, x)
  BY GoToMoves
<1>2. p = Idle \/ p.pc \in {"checked", "cancelled"}
  OBVIOUS
<1> HIDE DEF p
<1>3. PlacesOK'
  BY <1>1, <1>2, MovesKeepPlaces DEF QuietInv
<1> QED
  BY <1>1, <1>3, QuietStep

LEMMA TimerQuiet ==
  ASSUME LifecycleInv, QuietInv, OwnThread, NEW x \in Client, TimerStep(x)
  PROVE  QuietInv'
<1>1. Quiet(x)
  BY DEF QuietInv
<1>2. CASE Timeout(x)
  <2>1. /\ at["timer"] = Idle /\ x \in timers /\ GoTo("timer", "checked", x)
        /\ UNCHANGED <<timers, network, udp, application>>
    BY <1>2 DEF Timeout, CheckClient, OwnThread
  <2>2. SameLife(x) /\ SameRegister(x) /\ OthersSame(x)
    BY <1>2, OtherFields DEF Timeout, CheckClient
  <2>3. /\ at'["app"] = at["app"] /\ at'[x] = at[x]
        /\ at'["timer"].x = x /\ at'["timer"].pc = "checked"
    BY <2>1, TimerGoes
  <2>4. StepAbout(x)
    BY <2>1, <2>2 DEF StepAbout, OthersSame
  <2>5. Created(x)
    BY <2>1 DEF LifecycleInv, ServicesOK
  <2>6. Quiet(x)'
    BY <1>1, <2>1, <2>2, <2>3, <2>5 DEF Quiet, AppIn, NoTimer, SameLife, SameRegister
  <2> QED
    BY <2>1, <2>4, <2>6, QuietTimer
<1>3. CASE TimeoutCancel(x)
  <2>1. /\ at["timer"].x = x /\ at["timer"].pc = "checked" /\ Created(x)
        /\ UNCHANGED <<client, network, udp, application>>
    BY <1>3, AtIsCreated, ThreadsApart DEF TimeoutCancel, In
  <2>2. CASE client[x].m_bRegister /\ timers' = timers \ {x} /\ GoTo("timer", "cancelled", x)
    <3>1. /\ at'["app"] = at["app"] /\ at'[x] = at[x]
          /\ at'["timer"].x = x /\ at'["timer"].pc = "cancelled"
      BY <2>1, <2>2, TimerGoes
    <3>2. StepAbout(x)
      BY <2>1, <2>2 DEF StepAbout
    <3>3. Quiet(x)'
      BY <1>1, <2>1, <2>2, <3>1 DEF Quiet, AppIn, NoTimer
    <3> QED
      BY <2>1, <2>2, <3>2, <3>3, QuietTimer
  <2>3. CASE GoTo("timer", "idle", x) /\ UNCHANGED timers
    <3>1. at'["app"] = at["app"] /\ at'[x] = at[x] /\ at'["timer"] = Idle
      BY <2>1, <2>3, TimerGoes
    <3>2. StepAbout(x)
      BY <2>1, <2>3 DEF StepAbout
    <3>3. Quiet(x)'
      BY <1>1, <2>1, <2>3, <3>1, ThreadsApart DEF Quiet, AppIn, NoTimer
    <3> QED
      BY <2>1, <2>3, <3>2, <3>3, QuietTimer
  <2> QED
    BY <1>3, <2>2, <2>3 DEF TimeoutCancel
<1>4. CASE TimeoutEnds(x)
  <2>1. /\ at["timer"].x = x /\ at["timer"].pc = "cancelled" /\ Created(x)
        /\ GoTo("timer", "idle", x) /\ UNCHANGED <<timers, network, udp, application>>
    BY <1>4, AtIsCreated, ThreadsApart DEF TimeoutEnds, In
  <2>2. SameLife(x) /\ OthersSame(x)
    BY <1>4, RegisterField DEF TimeoutEnds
  <2>3. at'["app"] = at["app"] /\ at'[x] = at[x] /\ at'["timer"] = Idle
    BY <2>1, TimerGoes
  <2>4. StepAbout(x)
    BY <2>1, <2>2 DEF StepAbout, OthersSame
  <2>5. Quiet(x)'
    BY <1>1, <2>1, <2>2, <2>3, ThreadsApart DEF Quiet, AppIn, NoTimer, SameLife
  <2> QED
    BY <2>1, <2>4, <2>5, QuietTimer
<1>5. ~StopStep("timer", x)
  <2>1. at["timer"].pc \in {"idle", "checked", "cancelled"}
    BY ThreadsApart DEF QuietInv, PlacesOK
  <2> QED
    BY <2>1 DEF StopStep, StopCancel, StopDisarm, StopRemove, StopRelease, In
<1> QED
  BY <1>2, <1>3, <1>4, <1>5 DEF TimerStep

LEMMA NetworkGoes ==
  ASSUME LifecycleInv, NEW x \in Client, NEW pc, GoTo(x, pc, x),
         at[x] = Idle \/ at[x].x = x
  PROVE  /\ at'["app"] = at["app"] /\ at'["timer"] = at["timer"]
         /\ pc = "idle" => at'[x] = Idle
<1>1. x \in {"app", "timer", x} /\ {"app", "timer"} \subseteq Threads \ {x}
  BY ThreadsApart
<1> QED
  BY <1>1, GoToMoves

\* The network thread of a registered client, or inside one, leaves what stop_recv
\* looks at alone.
LEMMA QuietNetwork ==
  ASSUME LifecycleInv, QuietInv, OwnThread, NEW x \in Client, NEW pc,
         pc \in {"idle", "recv", "delivered"}, GoTo(x, pc, x),
         x \in network \/ at[x] # Idle \/ pc = "idle", Created(x),
         SameLife(x), SameRegister(x), OthersSame(x),
         UNCHANGED <<timers, network, application>>
  PROVE  QuietInv'
<1> DEFINE p == IF pc = "idle" THEN Idle ELSE [pc |-> pc, x |-> x]
<1>1. at[x] = Idle \/ at[x].x = x
  BY DEF QuietInv, PlacesOK
<1>2. Moves(x, p, x)
  BY <1>1, GoToMoves
<1>3. p = Idle \/ (p.x = x /\ p.pc \in {"recv", "delivered"})
  OBVIOUS
<1> HIDE DEF p
<1>4. PlacesOK'
  BY <1>2, <1>3, MovesKeepPlaces DEF QuietInv
<1>5. /\ at'["app"] = at["app"] /\ at'["timer"] = at["timer"]
      /\ pc = "idle" => at'[x] = Idle
  BY <1>1, NetworkGoes
<1>6. Quiet(x)
  BY DEF QuietInv
<1>7. Quiet(x)'
  BY <1>5, <1>6 DEF Quiet, AppIn, NoTimer, SameLife, SameRegister
<1>8. StepAbout(x)
  BY DEF StepAbout, OthersSame
<1> QED
  BY <1>2, <1>4, <1>7, <1>8, QuietStep

LEMMA NetworkQuiet ==
  ASSUME LifecycleInv, QuietInv, OwnThread, NEW x \in Client,
         HandleRecv(x) \/ UdpRecv(x) \/ NetworkStep(x)
  PROVE  QuietInv'
<1>1. \A pc : pc # "idle" /\ In(x, pc, x) => Created(x) /\ at[x] # Idle
  BY AtIsCreated, ThreadsApart DEF In, Idle
<1>2. CASE HandleRecv(x)
  <2>1. /\ x \in network /\ GoTo(x, "recv", x) /\ UNCHANGED <<timers, network, application>>
    BY <1>2 DEF HandleRecv
  <2>2. Created(x)
    BY <2>1 DEF LifecycleInv, ServicesOK
  <2>3. SameLife(x) /\ SameRegister(x) /\ OthersSame(x)
    BY <1>2, OtherFields DEF HandleRecv
  <2> QED
    BY <2>1, <2>2, <2>3, QuietNetwork
<1>3. CASE UdpRecv(x)
  <2>1. /\ GoTo(x, "idle", x) /\ UNCHANGED <<timers, network, application>>
    BY <1>3 DEF UdpRecv, UdpEntry
  <2>2. Created(x)
    BY <1>3 DEF UdpRecv, LifecycleInv, ServicesOK
  <2>3. SameLife(x) /\ SameRegister(x) /\ OthersSame(x)
    BY <1>3, OtherFields DEF UdpRecv
  <2> QED
    BY <2>1, <2>2, <2>3, QuietNetwork
<1>4. CASE RtspReceived(x)
  <2>1. PICK opens \in BOOLEAN :
          client' = [client EXCEPT ![x].armed = TRUE, ![x].silent = FALSE,
                                   ![x].udpArmed = @ \/ opens]
    BY <1>4 DEF RtspReceived
  <2>2. PICK v \in BOOLEAN :
          client' = [client EXCEPT ![x].armed = TRUE, ![x].silent = FALSE, ![x].udpArmed = v]
    <3>1. (client[x].udpArmed \/ opens) \in BOOLEAN
      OBVIOUS
    <3> QED
      BY <2>1, <3>1
  <2>3. SameLife(x) /\ SameRegister(x) /\ OthersSame(x)
    BY <2>2, OtherFields
  <2> QED
    BY <1>1, <1>4, <2>3, QuietNetwork DEF RtspReceived
<1>5. CASE RtspFailed(x)
  <2>1. SameLife(x) /\ SameRegister(x) /\ OthersSame(x)
    <3>1. client' = [client EXCEPT ![x].m_enStatus = "TEARDOWN"]
      BY <1>5 DEF RtspFailed, OwnThread
    <3> QED
      BY <3>1, OtherFields
  <2> QED
    BY <1>1, <1>5, <2>1, QuietNetwork DEF RtspFailed, TornDown
<1>6. CASE RtmpReceived(x)
  <2>1. SameLife(x) /\ SameRegister(x) /\ OthersSame(x)
    BY <1>6, OtherFields DEF RtmpReceived
  <2> QED
    BY <1>1, <1>6, <2>1, QuietNetwork DEF RtmpReceived
<1>7. CASE RtmpEnds(x)
  <2>1. SameLife(x) /\ SameRegister(x) /\ OthersSame(x)
    BY <1>7, OtherFields DEF RtmpEnds
  <2> QED
    BY <1>1, <1>7, <2>1, QuietNetwork DEF RtmpEnds
<1>8. CASE RtmpSkipped(x)
  <2>1. SameLife(x) /\ SameRegister(x) /\ OthersSame(x)
    BY <1>8, OtherFields DEF RtmpSkipped
  <2> QED
    BY <1>1, <1>8, <2>1, QuietNetwork DEF RtmpSkipped
<1>9. ~StopStep(x, x)
  <2>1. at[x].pc \in {"idle", "recv", "delivered"}
    BY ThreadsApart DEF QuietInv, PlacesOK
  <2> QED
    BY <2>1 DEF StopStep, StopCancel, StopDisarm, StopRemove, StopRelease, In
<1> QED
  BY <1>2, <1>3, <1>4, <1>5, <1>6, <1>7, <1>8, <1>9 DEF NetworkStep

-----------------------------------------------------------------------------
LEMMA InitQuiet == Init => QuietInv
<1> SUFFICES ASSUME Init PROVE QuietInv
  OBVIOUS
<1>1. timers = {} /\ network = {} /\ \A t \in Threads : at[t] = Idle
  BY DEF Init
<1>2. \A x \in Client : client[x] = NotCreated
  BY DEF Init
<1>3. \A x \in Client : ~client[x].started /\ ~client[x].stopped /\ ~Created(x)
  BY <1>2 DEF NotCreated, NewClient, Created
<1>4. at["app"] = Idle /\ at["timer"] = Idle /\ \A x \in Client : at[x] = Idle
  BY <1>1, ThreadsApart
<1>5. PlacesOK
  BY <1>4 DEF PlacesOK
<1>6. ASSUME NEW x \in Client
      PROVE  Quiet(x)
  BY <1>1, <1>3, <1>4, ThreadsApart DEF Quiet, AppIn, NoTimer
<1> QED
  BY <1>5, <1>6 DEF QuietInv, PlacesOK, Quiet, AppIn, NoTimer

\* What the application does in its callbacks never changes.
LEMMA SameApplication ==
  ASSUME [Next]_vars
  PROVE  application' = application
<1>1. CASE UNCHANGED vars
  BY <1>1 DEF vars
<1>2. ASSUME NEW x \in Client, NEW t, StopStep(t, x)
      PROVE  application' = application
  BY <1>2 DEF StopStep, StopCancel, StopDisarm, StopRemove, StopRelease
<1>3. ASSUME NEW x \in Client,
             Create(x) \/ StartRtsp(x) \/ StartRtmp(x) \/ Stop(x) \/ Destroy(x) \/ Silence(x)
      PROVE  application' = application
  BY <1>3 DEF Create, StartRtsp, StartRtmp, Stop, Destroy, Silence
<1>4. ASSUME NEW x \in Client, AppStep(x)
      PROVE  application' = application
  BY <1>2, <1>4 DEF AppStep, StartOptions, RegisterTimer, Registered
<1>5. ASSUME NEW x \in Client, TimerStep(x)
      PROVE  application' = application
  BY <1>2, <1>5 DEF TimerStep, Timeout, TimeoutCancel, TimeoutEnds
<1>6. ASSUME NEW x \in Client, HandleRecv(x) \/ UdpRecv(x)
      PROVE  application' = application
  BY <1>6 DEF HandleRecv, UdpRecv
<1>7. ASSUME NEW x \in Client, NetworkStep(x)
      PROVE  application' = application
  BY <1>2, <1>7 DEF NetworkStep, RtspReceived, RtspFailed, RtmpReceived, RtmpEnds, RtmpSkipped
<1> QED
  BY <1>1, <1>3, <1>4, <1>5, <1>6, <1>7 DEF Next

LEMMA NextQuiet ==
  ASSUME LifecycleInv, QuietInv, Waits, [Next]_vars
  PROVE  QuietInv'
<1> SUFFICES ASSUME OwnThread'
             PROVE  QuietInv'
  BY DEF QuietInv
<1>1. OwnThread
  BY SameApplication DEF OwnThread
<1>2. CASE UNCHANGED vars
  <2>1. ASSUME NEW x \in Client
        PROVE  Quiet(x)'
    <3>1. Quiet(x)
      BY <1>1 DEF QuietInv
    <3> QED
      BY <1>2, <3>1 DEF Quiet, AppIn, NoTimer, Created, vars
  <2>2. PlacesOK'
    BY <1>1, <1>2 DEF QuietInv, PlacesOK, vars
  <2> QED
    BY <2>1, <2>2 DEF QuietInv
<1>3. ASSUME NEW x \in Client, Create(x) PROVE QuietInv'
  BY <1>1, <1>3, CreateQuiet
<1>4. ASSUME NEW x \in Client, StartRtsp(x) \/ StartRtmp(x) PROVE QuietInv'
  BY <1>1, <1>4, StartQuiet
<1>5. ASSUME NEW x \in Client, Stop(x) \/ StopStep("app", x) PROVE QuietInv'
  BY <1>1, <1>5, StopsQuiet
<1>6. ASSUME NEW x \in Client, Destroy(x) PROVE QuietInv'
  BY <1>1, <1>6, DestroyQuiet
<1>7. ASSUME NEW x \in Client, StartOptions(x) \/ RegisterTimer(x) \/ Registered(x) PROVE QuietInv'
  BY <1>1, <1>7, AppStepQuiet
<1>8. ASSUME NEW x \in Client, TimerStep(x) PROVE QuietInv'
  BY <1>1, <1>8, TimerQuiet
<1>9. ASSUME NEW x \in Client, HandleRecv(x) \/ UdpRecv(x) \/ NetworkStep(x) PROVE QuietInv'
  BY <1>1, <1>9, NetworkQuiet
<1>10. ASSUME NEW x \in Client, Silence(x) PROVE QuietInv'
  BY <1>1, <1>10, SilenceQuiet
<1> QED
  BY <1>2, <1>3, <1>4, <1>5, <1>6, <1>7, <1>8, <1>9, <1>10 DEF Next, AppStep

LEMMA QuietInvariant ==
  ASSUME Waits
  PROVE  Spec => [](LifecycleInv /\ QuietInv)
<1>1. Init => QuietInv
  BY InitQuiet
<1>2. LifecycleInv /\ QuietInv /\ [Next]_vars => QuietInv'
  BY NextQuiet
<1> QED
  BY <1>1, <1>2, LifecycleInvariant, PTL DEF Spec

\* When stop_recv has returned to an application that stops its clients in its own
\* thread, no callback of the client runs and none will come, if cancelTimer and
\* removeTcpClient wait for those that run.
THEOREM StopLeavesQuiet ==
  ASSUME Waits
  PROVE  Spec => []StoppedIsQuiet
<1>1. LifecycleInv /\ QuietInv => StoppedIsQuiet
  BY DEF StoppedIsQuiet, QuietInv, OwnThread, Quiet, NoTimer
<1> QED
  BY <1>1, QuietInvariant, PTL

\* Such an application may destroy what it has stopped: no thread uses, and no
\* service will call, a client that has been destroyed.
THEOREM StoppedClientsMayBeDestroyed ==
  ASSUME Waits
  PROVE  Spec => []StoppedMayBeDestroyed
<1>1. LifecycleInv /\ QuietInv => StoppedMayBeDestroyed
  <2> SUFFICES ASSUME LifecycleInv, QuietInv, OwnThread, NEW x \in Client,
                      Created(x), ~Alive(x)
               PROVE  ~Used(x)
    BY DEF StoppedMayBeDestroyed, NoUseAfterDelete, OwnThread
  <2>1. Quiet(x) /\ client[x].stopped
    BY DEF QuietInv, Quiet, Alive
  <2>2. x \notin timers /\ x \notin network /\ at["timer"].x # x /\ at["app"].x # x
    BY <2>1 DEF Quiet, NoTimer
  <2>3. \A y \in Client : at[y].x # x
    BY <2>1, ThreadsApart DEF Quiet, QuietInv, PlacesOK
  <2> QED
    BY <2>2, <2>3 DEF Used, Threads
<1> QED
  BY <1>1, QuietInvariant, PTL

-----------------------------------------------------------------------------
(* The handle of an RTMP client.  Here the application may be written in    *)
(* either way: the timer thread may be in stop_recv too.                    *)

Releasing(t, x) == at[t].pc = "release" /\ at[t].x = x

\* A client that was not started is unknown to the threads and the services, and
\* the network has let go of an RTMP client whose handle is destroyed, or is
\* about to be.
HandleKept(x) ==
  /\ at[x] = Idle \/ (at[x].x = x /\ at[x].pc \in {"recv", "delivered"})
  /\ ~client[x].started => /\ x \notin timers /\ x \notin network /\ at[x] = Idle
                           /\ at["app"].x # x /\ at["timer"].x # x
  /\ Is(x, "rtmp") /\ (~client[x].m_rtmpHandle \/ Releasing("app", x) \/ Releasing("timer", x))
       => x \notin network /\ at[x] = Idle

HandleInv == \A x \in Client : HandleKept(x)

LEMMA HandleStep ==
  ASSUME LifecycleInv, HandleInv, NEW x \in Client, OthersSame(x),
         timers \ {x} = timers' \ {x}, network \ {x} = network' \ {x},
         NEW t \in {"app", "timer", x}, NEW p, UNCHANGED at \/ Moves(t, p, x),
         HandleKept(x)'
  PROVE  HandleInv'
<1> SUFFICES ASSUME NEW y \in Client \ {x}
             PROVE  HandleKept(y)'
  BY DEF HandleInv
<1>1. /\ client'[y] = client[y]
      /\ y \in timers' <=> y \in timers
      /\ y \in network' <=> y \in network
  BY DEF OthersSame
<1>2. at'[y] = at[y]
  BY ThreadsApart DEF Moves, LifecycleInv, ThreadsOK
<1>3. \A u \in {"app", "timer"} : at'[u] = at[u] \/ (at[u].x # y /\ at'[u].x # y)
  BY ThreadsApart DEF Moves, LifecycleInv, ThreadsOK
<1>4. HandleKept(y)
  BY DEF HandleInv
<1>5. /\ at'["app"].x = y <=> at["app"].x = y
      /\ at'["timer"].x = y <=> at["timer"].x = y
  BY <1>3
<1>6. \A u \in {"app", "timer"} : Releasing(u, y)' <=> Releasing(u, y)
  BY <1>3 DEF Releasing
<1>7. Is(y, "rtmp")' <=> Is(y, "rtmp")
  BY <1>1 DEF Is
<1> QED
  BY <1>1, <1>2, <1>4, <1>5, <1>6, <1>7 DEF HandleKept

SameHandle(x) ==
  /\ client'[x].kind = client[x].kind /\ client'[x].started = client[x].started
  /\ client'[x].m_rtmpHandle = client[x].m_rtmpHandle

\* The ways in which a client changes and keeps its handle.
LEMMA HandleFields ==
  ASSUME LifecycleInv, NEW x \in Client, NEW v \in BOOLEAN, NEW status,
         \/ UNCHANGED client
         \/ client' = [client EXCEPT ![x].silent = v]
         \/ client' = [client EXCEPT ![x].armed = v]
         \/ client' = [client EXCEPT ![x].udpArmed = v]
         \/ client' = [client EXCEPT ![x].m_bRegister = v]
         \/ client' = [client EXCEPT ![x].m_enStatus = status]
         \/ client' = [client EXCEPT ![x].alive = FALSE, ![x].m_enStatus = status]
         \/ client' = [client EXCEPT ![x].armed = TRUE, ![x].silent = FALSE]
         \/ client' = [client EXCEPT ![x].armed = TRUE, ![x].silent = FALSE, ![x].udpArmed = v]
  PROVE  SameHandle(x) /\ OthersSame(x)
<1> DEFINE Same(r, q) == /\ r.kind = q.kind /\ r.started = q.started
                         /\ r.m_rtmpHandle = q.m_rtmpHandle
<1>1. client[x] \in ClientRecord
  BY DEF LifecycleInv, ObjectsOK
<1>2. ASSUME NEW q \in ClientRecord
      PROVE  /\ Same(q, q)
             /\ Same([q EXCEPT !.silent = v], q)
             /\ Same([q EXCEPT !.armed = v], q)
             /\ Same([q EXCEPT !.udpArmed = v], q)
             /\ Same([q EXCEPT !.m_bRegister = v], q)
             /\ Same([q EXCEPT !.m_enStatus = status], q)
             /\ Same([q EXCEPT !.alive = FALSE, !.m_enStatus = status], q)
             /\ Same([q EXCEPT !.armed = TRUE, !.silent = FALSE], q)
             /\ Same([q EXCEPT !.armed = TRUE, !.silent = FALSE, !.udpArmed = v], q)
  BY DEF ClientRecord
<1>3. \/ client'[x] = client[x]
      \/ client'[x] = [client[x] EXCEPT !.silent = v]
      \/ client'[x] = [client[x] EXCEPT !.armed = v]
      \/ client'[x] = [client[x] EXCEPT !.udpArmed = v]
      \/ client'[x] = [client[x] EXCEPT !.m_bRegister = v]
      \/ client'[x] = [client[x] EXCEPT !.m_enStatus = status]
      \/ client'[x] = [client[x] EXCEPT !.alive = FALSE, !.m_enStatus = status]
      \/ client'[x] = [client[x] EXCEPT !.armed = TRUE, !.silent = FALSE]
      \/ client'[x] = [client[x] EXCEPT !.armed = TRUE, !.silent = FALSE, !.udpArmed = v]
  BY Zenon DEF LifecycleInv, ObjectsOK
<1>4. OthersSame(x)
  BY DEF LifecycleInv, ObjectsOK, OthersSame
<1>5. Same(client'[x], client[x])
  <2> HIDE DEF Same
  <2> QED
    BY <1>1, <1>2, <1>3, Zenon
<1> QED
  BY <1>4, <1>5 DEF SameHandle

\* A thread goes on with a client that keeps its handle, and does not come to the
\* point where it destroys it.
LEMMA KeepsHandle ==
  ASSUME LifecycleInv, HandleInv, NEW x \in Client, SameHandle(x), OthersSame(x),
         timers' \subseteq timers \cup {x}, timers \subseteq timers' \cup {x},
         x \in timers' => client[x].started, UNCHANGED network,
         NEW t \in {"app", "timer", x}, NEW pc, GoTo(t, pc, x),
         at[t] = Idle \/ at[t].x = x, client[x].started,
         t # x => pc # "release",
         t = x => pc \in {"idle", "recv", "delivered"} /\ (x \in network \/ at[x] # Idle \/ pc = "idle")
  PROVE  HandleInv'
<1> DEFINE p == IF pc = "idle" THEN Idle ELSE [pc |-> pc, x |-> x]
<1>1. /\ Moves(t, p, x) /\ \A u \in Threads \ {t} : at'[u] = at[u]
      /\ pc = "idle" => at'[t] = Idle
      /\ pc # "idle" => at'[t].x = x /\ at'[t].pc = pc
  BY GoToMoves
<1>2. HandleKept(x)
  BY DEF HandleInv
<1>3. Is(x, "rtmp")' <=> Is(x, "rtmp")
  BY DEF Is, SameHandle
<1>4. CASE t = x
  <2>1. /\ at'["app"] = at["app"] /\ at'["timer"] = at["timer"]
        /\ at'[x] = Idle \/ (at'[x].x = x /\ at'[x].pc \in {"recv", "delivered"} /\ (x \in network \/ at[x] # Idle))
    BY <1>1, <1>4, ThreadsApart
  <2>2. HandleKept(x)'
    BY <1>2, <1>3, <2>1 DEF HandleKept, SameHandle, Releasing
  <2> QED
    BY <1>1, <2>2, HandleStep
<1>5. CASE t # x
  <2>1. at'[x] = at[x] /\ t \in {"app", "timer"} /\ t \in Threads
    BY <1>1, <1>5, ThreadsApart
  <2>2. \A u \in {"app", "timer"} : at'[u] = at[u] \/ ~Releasing(u, x)'
    BY <1>1, <1>5, <2>1, ThreadsApart DEF Releasing
  <2>3. \A u \in {"app", "timer"} : Releasing(u, x)' => Releasing(u, x)
    BY <2>2 DEF Releasing
  <2>4. HandleKept(x)'
    BY <1>2, <1>3, <2>1, <2>3 DEF HandleKept, SameHandle
  <2> QED
    BY <1>1, <2>4, HandleStep
<1> QED
  BY <1>4, <1>5

\* The same when no thread moves.
LEMMA RestsWithHandle ==
  ASSUME LifecycleInv, HandleInv, NEW x \in Client, SameHandle(x), OthersSame(x),
         UNCHANGED <<at, timers, network>>
  PROVE  HandleInv'
<1>1. HandleKept(x)
  BY DEF HandleInv
<1>2. HandleKept(x)'
  BY <1>1 DEF HandleKept, SameHandle, Is, Releasing
<1> QED
  BY <1>2, ThreadsApart, HandleStep

\* A thread that is with a client: the client has been started.
LEMMA InsideStarted ==
  ASSUME HandleInv, NEW x \in Client, NEW t \in {"app", "timer", x}, NEW pc, pc # "idle",
         In(t, pc, x)
  PROVE  at[t].x = x /\ at[t].pc = pc /\ at[t] # Idle /\ client[x].started
<1>1. at[t].x = x /\ at[t].pc = pc /\ at[t] # Idle
  BY DEF In, Idle
<1> QED
  BY <1>1 DEF HandleInv, HandleKept

LEMMA StartsWithHandle ==
  ASSUME LifecycleInv, HandleInv, NEW x \in Client,
         Create(x) \/ StartRtsp(x) \/ StartRtmp(x)
  PROVE  HandleInv'
<1>1. ~client[x].started
  <2>1. ASSUME Create(x)
        PROVE  ~client[x].started
    BY <2>1 DEF Create, Created, NotCreated, NewClient
  <2> QED
    BY <2>1 DEF StartRtsp, StartRtmp
<1>2. /\ x \notin timers /\ x \notin network /\ at[x] = Idle
      /\ at["app"].x # x /\ at["timer"].x # x
  BY <1>1 DEF HandleInv, HandleKept
<1>3. CASE Create(x)
  <2>1. UNCHANGED <<at, timers, network>>
    BY <1>3 DEF Create
  <2>2. OthersSame(x)
    BY <1>3 DEF Create, LifecycleInv, ObjectsOK, OthersSame
  <2>3. HandleKept(x)'
    BY <1>2, <2>1 DEF HandleKept, Releasing
  <2> QED
    BY <2>1, <2>2, <2>3, ThreadsApart, HandleStep
<1>4. CASE StartRtsp(x) \/ StartRtmp(x)
  <2>1. /\ at["app"] = Idle /\ UNCHANGED timers
        /\ network' \subseteq network \cup {x} /\ network \subseteq network'
    BY <1>4 DEF StartRtsp, StartRtmp
  <2>2. \/ client' = [client EXCEPT ![x] = [client[x] EXCEPT !.started = TRUE]]
        \/ client' = [client EXCEPT ![x] = [client[x] EXCEPT !.started = TRUE, !.armed = TRUE,
                                                          !.m_rtmpHandle = TRUE]]
    BY <1>4 DEF StartRtsp, StartRtmp, LifecycleInv, ObjectsOK
  <2>3. client[x] \in ClientRecord /\ OthersSame(x)
    BY <2>2 DEF LifecycleInv, ObjectsOK, OthersSame
  <2>4. \A q \in ClientRecord :
          LET r == [q EXCEPT !.started = TRUE]
              u == [q EXCEPT !.started = TRUE, !.armed = TRUE, !.m_rtmpHandle = TRUE]
          IN  /\ r.started /\ r.kind = q.kind /\ u.started /\ u.kind = q.kind /\ u.m_rtmpHandle
    BY DEF ClientRecord
  <2>9. \/ client'[x] = [client[x] EXCEPT !.started = TRUE]
        \/ client'[x] = [client[x] EXCEPT !.started = TRUE, !.armed = TRUE, !.m_rtmpHandle = TRUE]
    BY <2>2 DEF LifecycleInv, ObjectsOK
  <2>5. client'[x].started /\ client'[x].kind = client[x].kind
    BY <2>3, <2>4, <2>9
  <2>6. \/ UNCHANGED at /\ (x \notin network' \/ client[x].kind # "rtmp")
        \/ GoTo("app", "options", x) /\ client[x].kind # "rtmp"
        \/ GoTo("app", "timer", x) /\ (client'[x].m_rtmpHandle)
    <3>1. CASE StartRtsp(x)
      BY <3>1 DEF StartRtsp, Is
    <3>2. CASE StartRtmp(x)
      <4>1. CASE UNCHANGED <<at, network>>
        BY <1>2, <4>1
      <4>2. CASE /\ client' = [client EXCEPT ![x].started = TRUE, ![x].armed = TRUE,
                                              ![x].m_rtmpHandle = TRUE]
                 /\ GoTo("app", "timer", x)
        <5>1. client'[x] = [client[x] EXCEPT !.started = TRUE, !.armed = TRUE, !.m_rtmpHandle = TRUE]
          BY <4>2 DEF LifecycleInv, ObjectsOK
        <5> QED
          BY <2>3, <2>4, <4>2, <5>1
      <4> QED
        BY <3>2, <4>1, <4>2 DEF StartRtmp
    <3> QED
      BY <1>4, <3>1, <3>2
  <2>7. CASE UNCHANGED at
    <3>1. x \notin network' \/ client[x].kind # "rtmp"
      <4>1. CASE GoTo("app", "options", x) \/ GoTo("app", "timer", x)
        <5>1. at'["app"].x = x
          BY <2>1, <4>1, AppGoes
        <5> QED
          BY <1>2, <2>7, <5>1
      <4> QED
        BY <2>6, <4>1
    <3>2. HandleKept(x)'
      BY <1>2, <2>5, <2>7, <3>1 DEF HandleKept, Is
    <3> QED
      BY <2>1, <2>3, <2>7, <3>2, ThreadsApart, HandleStep
  <2>8. ASSUME NEW pc \in {"options", "timer"}, GoTo("app", pc, x),
               client[x].kind # "rtmp" \/ client'[x].m_rtmpHandle
        PROVE  HandleInv'
    <3>1. /\ at'["app"].x = x /\ at'["app"].pc = pc
          /\ at'["timer"] = at["timer"] /\ at'[x] = at[x]
      BY <2>1, <2>8, AppGoes
    <3>2. ~Releasing("app", x)' /\ ~Releasing("timer", x)'
      BY <1>2, <3>1 DEF Releasing
    <3>3. HandleKept(x)'
      BY <1>2, <2>5, <2>8, <3>1, <3>2 DEF HandleKept, Is
    <3>4. Moves("app", [pc |-> pc, x |-> x], x)
      BY <2>1, <2>8 DEF GoTo, Moves
    <3> QED
      BY <2>1, <2>3, <3>3, <3>4, HandleStep
  <2> QED
    BY <2>6, <2>7, <2>8
<1> QED
  BY <1>3, <1>4

LEMMA StopsWithHandle ==
  ASSUME LifecycleInv, HandleInv, Waits, NEW x \in Client,
         NEW t \in {"app", "timer", x}, StopStep(t, x)
  PROVE  HandleInv'
<1>1. HandleKept(x)
  BY DEF HandleInv
<1>2. t # x
  <2>1. at[x].pc \in {"idle", "recv", "delivered"}
    BY <1>1, ThreadsApart DEF HandleKept
  <2> QED
    BY <2>1 DEF StopStep, StopCancel, StopDisarm, StopRemove, StopRelease, In
<1>3. t \in Threads /\ x \in Threads \ {t} /\ t \in {"app", "timer"}
  BY <1>2, ThreadsApart
<1>4. CASE StopCancel(t, x)
  <2>1. /\ at[t].x = x /\ client[x].started /\ GoTo(t, "disarm", x)
        /\ timers' = timers \ {x} /\ UNCHANGED network
    BY <1>4, InsideStarted DEF StopCancel
  <2>2. SameHandle(x) /\ OthersSame(x)
    BY <1>4, HandleFields DEF StopCancel
  <2> QED
    BY <1>2, <2>1, <2>2, KeepsHandle
<1>5. CASE StopDisarm(t, x)
  <2>1. /\ at[t].x = x /\ client[x].started /\ GoTo(t, "remove", x)
        /\ UNCHANGED <<timers, network>>
    BY <1>5, InsideStarted DEF StopDisarm
  <2>2. PICK v \in BOOLEAN : client' = [client EXCEPT ![x].armed = v]
    <3>1. (client[x].armed /\ Is(x, "rtmp")) \in BOOLEAN
      OBVIOUS
    <3> QED
      BY <1>5, <3>1 DEF StopDisarm
  <2>3. SameHandle(x) /\ OthersSame(x)
    BY <2>2, HandleFields
  <2> QED
    BY <1>2, <2>1, <2>3, KeepsHandle
<1>6. CASE StopRemove(t, x)
  <2>1. /\ at[t].x = x /\ client[x].started /\ GoTo(t, "release", x)
        /\ network' = network \ {x} /\ UNCHANGED <<client, timers>>
    BY <1>6, InsideStarted DEF StopRemove
  <2>2. at[x] = Idle
    BY <1>2, <1>6 DEF StopRemove, NetworkFree
  <2>3. at'[x] = Idle /\ Moves(t, [pc |-> "release", x |-> x], x)
    <3>1. /\ Moves(t, IF "release" = "idle" THEN Idle ELSE [pc |-> "release", x |-> x], x)
          /\ \A u \in Threads \ {t} : at'[u] = at[u]
      BY <2>1, GoToMoves
    <3> QED
      BY <1>3, <2>2, <3>1
  <2>4. HandleKept(x)' /\ OthersSame(x)
    BY <2>1, <2>3 DEF HandleKept, OthersSame
  <2> QED
    BY <2>1, <2>3, <2>4, HandleStep
<1>7. CASE StopRelease(t, x)
  <2>1. /\ at[t].x = x /\ at[t].pc = "release" /\ client[x].started /\ UNCHANGED <<timers, network>>
    BY <1>7, InsideStarted DEF StopRelease
  <2>2. PICK pc \in {"checked", "idle"} : GoTo(t, pc, x)
    BY <1>7 DEF StopRelease
  <2>3. PICK p : at'[x] = at[x] /\ Moves(t, p, x)
    <3>1. Moves(t, IF pc = "idle" THEN Idle ELSE [pc |-> pc, x |-> x], x)
      BY <2>1, <2>2, GoToMoves
    <3>2. at'[x] = at[x]
      BY <1>3, <2>2 DEF GoTo, LifecycleInv, ThreadsOK
    <3> QED
      BY <3>1, <3>2
  <2>4. /\ OthersSame(x) /\ client'[x].started /\ client'[x].kind = client[x].kind
    <3> DEFINE v == client[x].stopped \/ t = "app"
               r == [client[x] EXCEPT !.m_rtmpHandle = FALSE, !.stopped = v]
    <3>1. client' = [client EXCEPT ![x] = [@ EXCEPT !.m_rtmpHandle = FALSE,
                                                    !.stopped = client[x].stopped \/ t = "app"]]
      BY <1>7 DEF StopRelease, LifecycleInv, ObjectsOK
    <3>2. \A q \in ClientRecord : \A w : LET u == [q EXCEPT !.m_rtmpHandle = FALSE, !.stopped = w]
                                        IN  u.started = q.started /\ u.kind = q.kind
      BY DEF ClientRecord
    <3>3. client'[x] = r /\ client[x] \in ClientRecord /\ OthersSame(x)
      BY <3>1 DEF LifecycleInv, ObjectsOK, OthersSame
    <3>4. r.started = client[x].started /\ r.kind = client[x].kind
      BY <3>2, <3>3
    <3> QED
      BY <2>1, <3>3, <3>4
  <2>5. Is(x, "rtmp") => x \notin network /\ at[x] = Idle
    BY <1>1, <1>3, <2>1 DEF HandleKept, Releasing
  <2>6. HandleKept(x)'
    BY <1>1, <2>1, <2>3, <2>4, <2>5 DEF HandleKept, Is
  <2> QED
    BY <2>1, <2>3, <2>4, <2>6, HandleStep
<1> QED
  BY <1>4, <1>5, <1>6, <1>7 DEF StopStep

LEMMA AppWithHandle ==
  ASSUME LifecycleInv, HandleInv, NEW x \in Client,
         \/ Stop(x) \/ Destroy(x) \/ Silence(x)
         \/ StartOptions(x) \/ RegisterTimer(x) \/ Registered(x)
  PROVE  HandleInv'
<1>1. HandleKept(x)
  BY DEF HandleInv
<1>2. "app" \in {"app", "timer", x} /\ "app" # x
  BY ThreadsApart
<1>3. CASE Stop(x)
  <2>1. /\ at["app"] = Idle /\ client[x].started /\ UNCHANGED <<client, timers, network>>
    BY <1>3 DEF Stop
  <2>2. PICK pc \in {"cancel", "disarm"} : GoTo("app", pc, x)
    BY <1>3 DEF Stop, StopEntry
  <2>3. SameHandle(x) /\ OthersSame(x)
    BY <2>1, HandleFields
  <2> QED
    BY <1>2, <2>1, <2>2, <2>3, KeepsHandle
<1>4. CASE Destroy(x)
  <2>1. SameHandle(x) /\ OthersSame(x)
    BY <1>4, HandleFields DEF Destroy, Deleted
  <2> QED
    BY <1>4, <2>1, RestsWithHandle DEF Destroy
<1>5. CASE Silence(x)
  <2>1. SameHandle(x) /\ OthersSame(x)
    BY <1>5, HandleFields DEF Silence
  <2> QED
    BY <1>5, <2>1, RestsWithHandle DEF Silence
<1>6. CASE StartOptions(x)
  <2>1. at["app"].x = x /\ client[x].started /\ UNCHANGED <<timers, network>>
    BY <1>2, <1>6, InsideStarted DEF StartOptions
  <2>2. SameHandle(x) /\ OthersSame(x)
    <3>1. client' = client \/ client' = [client EXCEPT ![x].armed = TRUE]
      BY <1>6 DEF StartOptions
    <3> QED
      BY <3>1, HandleFields, Zenon
  <2>3. PICK pc \in {"idle", "timer"} : GoTo("app", pc, x)
    BY <1>6 DEF StartOptions
  <2> QED
    BY <1>2, <2>1, <2>2, <2>3, KeepsHandle
<1>7. CASE RegisterTimer(x)
  <2>1. at["app"].x = x /\ client[x].started /\ UNCHANGED network
    BY <1>2, <1>7, InsideStarted DEF RegisterTimer
  <2>2. SameHandle(x) /\ OthersSame(x)
    <3>1. client' = client \/ client' = [client EXCEPT ![x].m_bRegister = FALSE]
      BY <1>7 DEF RegisterTimer
    <3> QED
      BY <3>1, HandleFields, Zenon
  <2>3. PICK pc \in {"idle", "registered"} : GoTo("app", pc, x)
    BY <1>7 DEF RegisterTimer
  <2>4. timers' \subseteq timers \cup {x} /\ timers \subseteq timers' \cup {x}
    BY <1>7 DEF RegisterTimer
  <2> QED
    BY <1>2, <2>1, <2>2, <2>3, <2>4, KeepsHandle
<1>8. CASE Registered(x)
  <2>1. /\ at["app"].x = x /\ client[x].started /\ UNCHANGED <<timers, network>>
        /\ GoTo("app", "idle", x)
    BY <1>2, <1>8, InsideStarted DEF Registered
  <2>2. SameHandle(x) /\ OthersSame(x)
    BY <1>8, HandleFields DEF Registered
  <2> QED
    BY <1>2, <2>1, <2>2, KeepsHandle
<1> QED
  BY <1>3, <1>4, <1>5, <1>6, <1>7, <1>8

LEMMA TimerWithHandle ==
  ASSUME LifecycleInv, HandleInv, NEW x \in Client,
         Timeout(x) \/ TimeoutCancel(x) \/ TimeoutEnds(x)
  PROVE  HandleInv'
<1>1. HandleKept(x)
  BY DEF HandleInv
<1>2. "timer" \in {"app", "timer", x} /\ "timer" # x
  BY ThreadsApart
<1>3. CASE Timeout(x)
  <2>1. at["timer"] = Idle /\ x \in timers /\ UNCHANGED <<timers, network>>
    BY <1>3 DEF Timeout
  <2>2. client[x].started
    BY <1>1, <2>1 DEF HandleKept
  <2>3. PICK pc \in {"cancel", "disarm", "checked"} : GoTo("timer", pc, x)
    BY <1>3 DEF Timeout, CheckClient, StopEntry
  <2>4. SameHandle(x) /\ OthersSame(x)
    BY <1>3, HandleFields DEF Timeout, CheckClient
  <2> QED
    BY <1>2, <2>1, <2>2, <2>3, <2>4, KeepsHandle
<1>4. CASE TimeoutCancel(x)
  <2>1. at["timer"].x = x /\ client[x].started /\ UNCHANGED <<client, network>>
    BY <1>2, <1>4, InsideStarted DEF TimeoutCancel
  <2>2. PICK pc \in {"idle", "cancelled"} : GoTo("timer", pc, x)
    BY <1>4 DEF TimeoutCancel
  <2>3. timers' \subseteq timers \cup {x} /\ timers \subseteq timers' \cup {x}
    BY <1>4 DEF TimeoutCancel
  <2>4. SameHandle(x) /\ OthersSame(x)
    BY <2>1, HandleFields
  <2> QED
    BY <1>2, <2>1, <2>2, <2>3, <2>4, KeepsHandle
<1>5. CASE TimeoutEnds(x)
  <2>1. /\ at["timer"].x = x /\ client[x].started /\ UNCHANGED <<timers, network>>
        /\ GoTo("timer", "idle", x)
    BY <1>2, <1>5, InsideStarted DEF TimeoutEnds
  <2>2. SameHandle(x) /\ OthersSame(x)
    BY <1>5, HandleFields DEF TimeoutEnds
  <2> QED
    BY <1>2, <2>1, <2>2, KeepsHandle
<1> QED
  BY <1>3, <1>4, <1>5

LEMMA NetworkWithHandle ==
  ASSUME LifecycleInv, HandleInv, NEW x \in Client,
         \/ HandleRecv(x) \/ UdpRecv(x) \/ RtspReceived(x) \/ RtspFailed(x)
         \/ RtmpReceived(x) \/ RtmpEnds(x) \/ RtmpSkipped(x)
  PROVE  HandleInv'
<1>1. HandleKept(x)
  BY DEF HandleInv
<1>2. at[x] = Idle \/ at[x].x = x
  BY <1>1 DEF HandleKept
<1>3. UNCHANGED <<timers, network>>
  BY DEF HandleRecv, UdpRecv, RtspReceived, RtspFailed, RtmpReceived, RtmpEnds, RtmpSkipped
<1>4. SameHandle(x) /\ OthersSame(x)
  <2>1. ASSUME RtspReceived(x)
        PROVE  \E v \in BOOLEAN :
                 client' = [client EXCEPT ![x].armed = TRUE, ![x].silent = FALSE, ![x].udpArmed = v]
    <3>1. PICK opens \in BOOLEAN :
            client' = [client EXCEPT ![x].armed = TRUE, ![x].silent = FALSE,
                                     ![x].udpArmed = @ \/ opens]
      BY <2>1 DEF RtspReceived
    <3>2. (client[x].udpArmed \/ opens) \in BOOLEAN
      OBVIOUS
    <3> QED
      BY <3>1, <3>2
  <2>2. CASE RtspReceived(x)
    BY <2>1, <2>2, HandleFields
  <2>3. CASE HandleRecv(x)
    BY <2>3, HandleFields DEF HandleRecv
  <2>4. CASE UdpRecv(x)
    <3>1. client' = [client EXCEPT ![x].udpArmed = FALSE]
      BY <2>4 DEF UdpRecv
    <3> QED
      BY <3>1, HandleFields
  <2>5. CASE RtspFailed(x)
    <3>1. \/ client' = [client EXCEPT ![x].alive = FALSE, ![x].m_enStatus = "TEARDOWN"]
          \/ client' = [client EXCEPT ![x].m_enStatus = "TEARDOWN"]
      BY <2>5 DEF RtspFailed, Deleted
    <3> QED
      BY <3>1, HandleFields, Zenon
  <2>6. CASE RtmpReceived(x)
    BY <2>6, HandleFields DEF RtmpReceived
  <2>7. CASE RtmpEnds(x)
    BY <2>7, HandleFields DEF RtmpEnds
  <2>8. CASE RtmpSkipped(x)
    BY <2>8, HandleFields DEF RtmpSkipped
  <2> QED
    BY <2>2, <2>3, <2>4, <2>5, <2>6, <2>7, <2>8
<1>5. CASE UdpRecv(x)
  <2>1. at[x] = Idle /\ GoTo(x, "idle", x)
    BY <1>5 DEF UdpRecv, UdpEntry
  <2>2. UNCHANGED at
    BY <2>1, ThreadsApart DEF GoTo, LifecycleInv, ThreadsOK
  <2> QED
    BY <1>3, <1>4, <2>2, RestsWithHandle
<1>6. CASE ~UdpRecv(x)
  <2>1. PICK pc \in {"idle", "recv", "delivered"} :
          GoTo(x, pc, x) /\ (x \in network \/ at[x] # Idle)
    <3>1. \A q : q # "idle" /\ In(x, q, x) => at[x] # Idle
      BY DEF In, Idle
    <3> QED
      BY <1>6, <3>1 DEF HandleRecv, RtspReceived, RtspFailed, TornDown, RtmpReceived, RtmpEnds, RtmpSkipped
  <2>2. client[x].started
    BY <1>1, <2>1 DEF HandleKept
  <2> QED
    BY <1>2, <1>3, <1>4, <2>1, <2>2, KeepsHandle
<1> QED
  BY <1>5, <1>6

LEMMA HandleInvariant ==
  ASSUME Waits
  PROVE  Spec => [](LifecycleInv /\ HandleInv)
<1>1. Init => HandleInv
  <2> SUFFICES ASSUME Init PROVE HandleInv
    OBVIOUS
  <2>1. /\ timers = {} /\ network = {} /\ \A t \in Threads : at[t] = Idle
    BY DEF Init
  <2> QED
    BY <2>1, ThreadsApart DEF HandleInv, HandleKept
<1>2. LifecycleInv /\ HandleInv /\ [Next]_vars => HandleInv'
  <2> SUFFICES ASSUME LifecycleInv, HandleInv, [Next]_vars
               PROVE  HandleInv'
    OBVIOUS
  <2>1. CASE UNCHANGED vars
    BY <2>1 DEF HandleInv, HandleKept, Is, Releasing, vars
  <2>2. ASSUME NEW x \in Client, Create(x) \/ StartRtsp(x) \/ StartRtmp(x)
        PROVE  HandleInv'
    BY <2>2, StartsWithHandle
  <2>3. ASSUME NEW x \in Client,
               \/ Stop(x) \/ Destroy(x) \/ Silence(x)
               \/ StartOptions(x) \/ RegisterTimer(x) \/ Registered(x)
        PROVE  HandleInv'
    BY <2>3, AppWithHandle
  <2>4. ASSUME NEW x \in Client, NEW t \in {"app", "timer", x}, StopStep(t, x)
        PROVE  HandleInv'
    BY <2>4, StopsWithHandle
  <2>5. ASSUME NEW x \in Client, Timeout(x) \/ TimeoutCancel(x) \/ TimeoutEnds(x)
        PROVE  HandleInv'
    BY <2>5, TimerWithHandle
  <2>6. ASSUME NEW x \in Client,
               \/ HandleRecv(x) \/ UdpRecv(x) \/ RtspReceived(x) \/ RtspFailed(x)
               \/ RtmpReceived(x) \/ RtmpEnds(x) \/ RtmpSkipped(x)
        PROVE  HandleInv'
    BY <2>6, NetworkWithHandle
  <2> QED
    BY <2>1, <2>2, <2>3, <2>4, <2>5, <2>6 DEF Next, AppStep, TimerStep, NetworkStep
<1> QED
  BY <1>1, <1>2, LifecycleInvariant, PTL DEF Spec

\* No frame is read from an RTMP handle that stop has destroyed, whichever thread
\* stops the client, if removeTcpClient waits for a running handle_recv.
THEOREM HandleOutlivesReading ==
  ASSUME Waits
  PROVE  Spec => []HandleNotPulled
<1>1. HandleInv => HandleNotPulled
  <2> SUFFICES ASSUME HandleInv, NEW x \in Client, In(x, "recv", x), Is(x, "rtmp")
               PROVE  client[x].m_rtmpHandle
    BY DEF HandleNotPulled
  <2>1. at[x] # Idle
    BY DEF In, Idle
  <2> QED
    BY <2>1 DEF HandleInv, HandleKept
<1> QED
  BY <1>1, HandleInvariant, PTL
=============================================================================
