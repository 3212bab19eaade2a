---------------------- MODULE LMCacheDrivenServerProofs ----------------------
(***************************************************************************)
(* Proofs about LMCacheDrivenServer for any number of instances, tasks,    *)
(* registrations, keys, groups and objects.                                *)
(***************************************************************************)
EXTENDS LMCacheDrivenServer, SequenceTheorems, TLAPS

-----------------------------------------------------------------------------
(* Streams.                                                                *)

\* The items of a sequence with another behind it.
LEMMA Extend ==
  ASSUME NEW S, NEW s \in Seq(S), NEW items \in Seq(S)
  PROVE  /\ s \o items \in Seq(S)
         /\ Len(s \o items) = Len(s) + Len(items) /\ Len(s) \in Nat /\ Len(items) \in Nat
         /\ \A n \in 1 .. Len(s) : (s \o items)[n] = s[n]
         /\ \A n \in (Len(s) + 1) .. Len(s \o items) : (s \o items)[n] = items[n - Len(s)]
  OBVIOUS

\* One item with another behind it, or none.
LEMMA Pair ==
  ASSUME NEW S, NEW a \in S, NEW b \in S
  PROVE  <<a>> \o <<>> = <<a>> /\ <<a>> \o <<b>> = <<a, b>>
  <1> DEFINE x == <<a>> \o <<b>>
             y == <<a, b>>
  <1>1. x \in Seq(S) /\ y \in Seq(S) /\ Len(x) = 2 /\ Len(y) = 2
    OBVIOUS
  <1>2. x[1] = a /\ x[2] = b
    OBVIOUS
  <1>3. \A i \in 1 .. 2 : x[i] = y[i]
    BY <1>2
  <1> HIDE DEF x, y
  <1>4. x = y
    BY <1>1, <1>3, SeqEqual
  <1>5. <<a>> \o <<>> = <<a>>
    OBVIOUS
  <1> QED BY <1>4, <1>5 DEF x, y

\* The items that are left without the first one.
LEMMA Shorten ==
  ASSUME NEW S, NEW s \in Seq(S), s # <<>>
  PROVE  /\ Tail(s) \in Seq(S) /\ Head(s) \in S /\ Head(s) = s[1]
         /\ Len(s) \in Nat \ {0} /\ Len(Tail(s)) = Len(s) - 1
         /\ \A n \in 1 .. (Len(s) - 1) : Tail(s)[n] = s[n + 1]
  OBVIOUS

\* The streams stay as they are, but for that of e, which may have got items
\* of these kinds.
Grown(e, S) ==
    /\ \A f \in Entry \ {e} : stream'[f] = stream[f]
    /\ Len(stream'[e]) >= Len(stream[e])
    /\ \A n \in 1 .. Len(stream[e]) : stream'[e][n] = stream[e][n]
    /\ \A n \in (Len(stream[e]) + 1) .. Len(stream'[e]) : stream'[e][n] \in S

\* What Enqueue does to the streams.
LEMMA EnqueueGrows ==
  ASSUME Typed, NEW e \in Entry, NEW S \in SUBSET ItemType, NEW items \in Seq(S), Enqueue(e, items)
  PROVE  /\ stream' \in [Entry -> Seq(ItemType)]
         /\ Grown(e, S)
         /\ Len(stream'[e]) = Len(stream[e]) + Len(items)
         /\ \A n \in 1 .. Len(items) : stream'[e][Len(stream[e]) + n] = items[n]
  <1>1. stream[e] \in Seq(ItemType) /\ items \in Seq(ItemType)
    BY DEF Typed
  <1>2. /\ stream' = [stream EXCEPT ![e] = stream[e] \o items]
        /\ stream \in [Entry -> Seq(ItemType)]
    BY DEF Enqueue, Typed
  <1>3. stream'[e] = stream[e] \o items /\ \A f \in Entry \ {e} : stream'[f] = stream[f]
    BY <1>2
  <1>4. /\ stream'[e] \in Seq(ItemType)
        /\ Len(stream'[e]) = Len(stream[e]) + Len(items) /\ Len(stream[e]) \in Nat /\ Len(items) \in Nat
        /\ \A n \in 1 .. Len(stream[e]) : stream'[e][n] = stream[e][n]
        /\ \A n \in (Len(stream[e]) + 1) .. Len(stream'[e]) : stream'[e][n] = items[n - Len(stream[e])]
    BY <1>1, <1>3, Extend
  <1>5. stream' \in [Entry -> Seq(ItemType)]
    BY <1>2, <1>4, <1>3
  <1>6. \A n \in 1 .. Len(items) : items[n] \in S
    OBVIOUS
  <1>7. \A n \in (Len(stream[e]) + 1) .. Len(stream'[e]) : stream'[e][n] \in S
    BY <1>4, <1>6
  <1>8. Grown(e, S)
    BY <1>3, <1>4, <1>7 DEF Grown
  <1>9. ASSUME NEW n \in 1 .. Len(items) PROVE stream'[e][Len(stream[e]) + n] = items[n]
    <2>1. /\ Len(stream[e]) + n \in (Len(stream[e]) + 1) .. Len(stream'[e])
          /\ (Len(stream[e]) + n) - Len(stream[e]) = n
      BY <1>4
    <2> QED BY <1>4, <2>1, Zenon
  <1> QED BY <1>4, <1>5, <1>8, <1>9

-----------------------------------------------------------------------------
(* Types and control.                                                      *)

Control == Typed /\ Handlers

RegistryTyped ==
    /\ contexts \in [Instance -> Entry \cup {NoEntry}]
    /\ registrations \in 0..MaxRegistrations
    /\ laidOut # {} => registrations \in Entry

StorageTyped ==
    /\ obj \in [ObjectKey -> {"absent", "writing", "readable"}] /\ written \subseteq ObjectKey

TasksTyped ==
    /\ wpc \in [Task -> {"idle", "sent", "answered"}] /\ key \in [Task -> Key]
    /\ hpc \in [Task -> HandlerPC] /\ grp \in [Task -> Group]
    /\ entry \in [Task -> Entry \cup {NoEntry}]
    /\ acc \in [Task -> SUBSET ObjectKey] /\ ok \in [Task -> BOOLEAN]

DeviceTyped == stream \in [Entry -> Seq(ItemType)] /\ callbacks \in Seq(ItemType)

\* The parts of Typed, before and after a step.
LEMMA TypedParts ==
  /\ Typed <=> RegistryTyped /\ StorageTyped /\ TasksTyped /\ DeviceTyped
  /\ Typed' <=> RegistryTyped' /\ StorageTyped' /\ TasksTyped' /\ DeviceTyped'
  BY DEF Typed, RegistryTyped, StorageTyped, TasksTyped, DeviceTyped

\* What a step does not touch stays typed.
LEMMA StillTyped ==
  /\ RegistryTyped /\ UNCHANGED registryVars => RegistryTyped'
  /\ StorageTyped /\ UNCHANGED <<obj, written>> => StorageTyped'
  /\ DeviceTyped /\ UNCHANGED <<stream, callbacks>> => DeviceTyped'
  BY DEF RegistryTyped, StorageTyped, DeviceTyped, registryVars

\* Tasks that a step leaves alone.
LEMMA TasksLeftAlone ==
  ASSUME Control, UNCHANGED <<wpc, key, hpc, grp, entry, acc, ok>>
  PROVE  TasksTyped' /\ Handlers'
  BY TypedParts DEF Control, TasksTyped, Handlers, Running

\* What is enqueued is typed.
LEMMA EnqueueTyped ==
  ASSUME Typed, NEW e \in Entry, NEW items \in Seq(ItemType), Enqueue(e, items),
         UNCHANGED callbacks
  PROVE  DeviceTyped'
  BY EnqueueGrows DEF DeviceTyped, Typed

\* The entry a request resolves, and the objects of its group.
LEMMA ResolvedEntry ==
  ASSUME Typed, NEW t \in Task
  PROVE  /\ contexts[InstanceOf[t]] \in Entry \cup {NoEntry}
         /\ Wanted(t) \subseteq ObjectKey
         /\ NoEntry \notin Entry
  BY ConstantsAssumption DEF Typed, Wanted, Entry, NoEntry

\* Items and the copies of a group are items.
LEMMA CopiesTyped ==
  ASSUME NEW kind \in ItemKind, NEW t \in Task, NEW objs \in SUBSET ObjectKey
  PROVE  /\ Item(kind, t, objs) \in ItemType
         /\ Copies(kind, t, objs) \in Seq({Item(kind, t, objs)})
         /\ <<Item(kind, t, objs)>> \in Seq({Item(kind, t, objs)})
         /\ Copies(kind, t, objs) \in Seq(ItemType)
         /\ <<Item(kind, t, objs)>> \in Seq(ItemType)
  <1>1. Item(kind, t, objs) \in ItemType
    BY DEF Item, ItemType
  <1>2. <<Item(kind, t, objs)>> \in Seq({Item(kind, t, objs)})
    OBVIOUS
  <1>3. <<>> \in Seq({Item(kind, t, objs)})
    OBVIOUS
  <1>4. <<Item(kind, t, objs)>> \in Seq(ItemType) /\ <<>> \in Seq(ItemType)
    BY <1>1
  <1> QED BY <1>1, <1>2, <1>3, <1>4 DEF Copies, NoItems

\* The answer to a request.
LEMMA AnswerControl ==
  ASSUME Control, NEW t \in Task, Answer(t), UNCHANGED <<key, ok>>,
         acc' = [acc EXCEPT ![t] = {}]
  PROVE  TasksTyped' /\ Handlers'
  <1>1. 1 \in Group
    BY ConstantsAssumption DEF Group
  <1>2. TasksTyped'
    BY <1>1, TypedParts DEF Control, TasksTyped, Answer, HandlerPC, NoEntry
  <1>3. Handlers'
    BY TypedParts DEF Control, TasksTyped, Handlers, Answer, Running, HandlerPC
  <1> QED BY <1>2, <1>3

\* A worker's steps, and a request that is turned away.
LEMMA RequestControl ==
  ASSUME Control, NEW t \in Task, Worker(t)
  PROVE  Control'
  <1>1. RegistryTyped /\ StorageTyped /\ TasksTyped /\ DeviceTyped
    BY TypedParts DEF Control
  <1>2. ASSUME NEW k \in Key, SubmitStore(t, k) \/ SubmitRetrieve(t, k) PROVE Control'
    <2>1. Send(t, k) /\ UNCHANGED <<obj, written>>
      BY <1>2 DEF SubmitStore, SubmitRetrieve, storageVars
    <2>2. RegistryTyped' /\ StorageTyped' /\ DeviceTyped'
      BY <1>1, <2>1, StillTyped DEF Send
    <2>3. TasksTyped'
      BY <1>1, <2>1 DEF Send, TasksTyped, HandlerPC
    <2>4. Handlers'
      <3>1. /\ hpc' = [hpc EXCEPT ![t] = "queued"] /\ wpc' = [wpc EXCEPT ![t] = "sent"]
            /\ wpc[t] = "idle" /\ UNCHANGED <<entry, acc, ok>>
        BY <2>1 DEF Send
      <3> QED BY <1>1, <3>1 DEF Control, Handlers, TasksTyped, Running
    <2> QED BY <2>2, <2>3, <2>4, TypedParts DEF Control
  <1>3. CASE EngineEvent(t)
    BY <1>1, <1>3, StillTyped, TasksLeftAlone, TypedParts
       DEF EngineEvent, Control, storageVars, taskVars, handlerVars
  <1>4. CASE FutureDone(t)
    <2>1. RegistryTyped' /\ StorageTyped' /\ DeviceTyped'
      BY <1>1, <1>4, StillTyped DEF FutureDone, storageVars, deviceVars
    <2>2. /\ wpc' = [wpc EXCEPT ![t] = "idle"] /\ ok' = [ok EXCEPT ![t] = FALSE]
          /\ wpc[t] = "answered" /\ UNCHANGED <<key, hpc, grp, entry, acc>>
      BY <1>4 DEF FutureDone, Ended
    <2>3. TasksTyped'
      BY <1>1, <2>2 DEF TasksTyped
    <2>4. Handlers'
      BY <1>1, <2>2 DEF Control, Handlers, TasksTyped, Running
    <2> QED BY <2>1, <2>3, <2>4, TypedParts DEF Control
  <1> QED BY <1>2, <1>3, <1>4 DEF Worker

\* A request that begins to be handled.
LEMMA ResolveControl ==
  ASSUME Control, NEW t \in Task, Resolve(t)
  PROVE  Control'
  <1>1. RegistryTyped /\ StorageTyped /\ TasksTyped /\ DeviceTyped
    BY TypedParts DEF Control
  <1>2. hpc[t] = "queued" /\ UNCHANGED <<registryVars, obj, written>>
    BY DEF Resolve, NotRegistered, Malformed, Underflow, BeginStore, BeginRetrieve, Resolved,
           storageVars
  <1>3. RegistryTyped' /\ StorageTyped'
    BY <1>1, <1>2, StillTyped
  <1>4. acc[t] = {} /\ acc = [acc EXCEPT ![t] = {}]
    BY <1>1, <1>2 DEF Control, Handlers, Running, TasksTyped
  <1>5. CASE NotRegistered(t) \/ Malformed(t) \/ Underflow(t)
    <2>1. TasksTyped' /\ Handlers'
      <3>1. Answer(t) /\ UNCHANGED <<key, acc, ok>>
        BY <1>5 DEF NotRegistered, Malformed, Underflow
      <3> QED BY <1>4, <3>1, AnswerControl
    <2>2. DeviceTyped'
      <3>1. CASE Underflow(t)
        <4>1. contexts[InstanceOf[t]] \in Entry
          BY <3>1, ResolvedEntry DEF Control, Underflow, Resolved
        <4>2. <<Item("event", t, {})>> \in Seq(ItemType)
          BY CopiesTyped DEF ItemKind
        <4> QED BY <3>1, <4>1, <4>2, EnqueueTyped DEF Control, Underflow
      <3>2. CASE ~Underflow(t)
        BY <1>1, <1>5, <3>2, StillTyped DEF NotRegistered, Malformed, deviceVars
      <3> QED BY <3>1, <3>2
    <2> QED BY <1>3, <2>1, <2>2, TypedParts DEF Control
  <1>6. CASE BeginStore(t) \/ BeginRetrieve(t)
    <2>1. PICK pc \in {"store", "load"}, good \in BOOLEAN :
            /\ hpc' = [hpc EXCEPT ![t] = pc] /\ ok' = [ok EXCEPT ![t] = good]
            /\ pc = "store" => t \in StoreTask /\ ~good
            /\ pc = "load" => t \in RetrieveTask
      BY <1>6 DEF BeginStore, BeginRetrieve
    <2>2. /\ entry' = [entry EXCEPT ![t] = contexts[InstanceOf[t]]]
          /\ UNCHANGED <<wpc, key, grp, acc>>
      BY <1>6 DEF BeginStore, BeginRetrieve, taskVars
    <2>3. contexts[InstanceOf[t]] \in Entry
      BY <1>6, ResolvedEntry DEF Control, BeginStore, BeginRetrieve, Resolved
    <2>4. TasksTyped'
      BY <1>1, <2>1, <2>2, <2>3 DEF TasksTyped, HandlerPC
    <2>5. Handlers'
      BY <1>1, <1>2, <1>4, <2>1, <2>2, <2>3 DEF Control, Handlers, TasksTyped, Running
    <2>6. DeviceTyped'
      <3>1. CASE BeginStore(t)
        <4>1. <<Item("wait", t, {})>> \in Seq(ItemType)
          BY CopiesTyped DEF ItemKind
        <4> QED BY <2>3, <3>1, <4>1, EnqueueTyped DEF Control, BeginStore
      <3>2. CASE BeginRetrieve(t)
        BY <1>1, <3>2, StillTyped DEF BeginRetrieve, deviceVars
      <3> QED BY <1>6, <3>1, <3>2
    <2> QED BY <1>3, <2>4, <2>5, <2>6, TypedParts DEF Control
  <1> QED BY <1>5, <1>6 DEF Resolve

\* Within a run: the handler goes on or comes to its end, with at most `more`
\* among what it holds.
LEMMA GoingOnControl ==
  ASSUME Control, NEW t \in Task, Running(t), NEW more \in SUBSET ObjectKey,
         acc' = [acc EXCEPT ![t] = more], UNCHANGED <<wpc, key, entry>>,
         grp' = grp \/ (grp[t] < NumGroups /\ grp' = [grp EXCEPT ![t] = @ + 1]),
         \/ UNCHANGED <<hpc, ok>>
         \/ /\ hpc' = [hpc EXCEPT ![t] = "finish"]
            /\ ok' = ok \/ \E good \in BOOLEAN : ok' = [ok EXCEPT ![t] = good]
  PROVE  TasksTyped' /\ Handlers'
  <1>1. TasksTyped
    BY TypedParts DEF Control
  <1>2. grp' \in [Task -> Group]
    <2>1. grp \in [Task -> Group] /\ grp[t] \in Group
      BY <1>1 DEF TasksTyped
    <2>2. grp[t] < NumGroups => grp[t] + 1 \in Group
      BY <2>1, ConstantsAssumption DEF Group
    <2> QED BY <2>1, <2>2
  <1>3. hpc' \in [Task -> HandlerPC] /\ ok' \in [Task -> BOOLEAN] /\ acc' \in [Task -> SUBSET ObjectKey]
    BY <1>1 DEF TasksTyped, HandlerPC
  <1>4. TasksTyped'
    BY <1>1, <1>2, <1>3 DEF TasksTyped
  <1>5. \A u \in Task \ {t} : hpc'[u] = hpc[u] /\ ok'[u] = ok[u] /\ acc'[u] = acc[u]
    BY <1>1 DEF TasksTyped
  <1>6. hpc'[t] = "finish" \/ (hpc'[t] = hpc[t] /\ ok'[t] = ok[t])
    BY <1>1 DEF TasksTyped
  <1>7. \A u \in Task : (hpc'[u] # "none" <=> hpc[u] # "none") /\ (Running(u)' <=> Running(u))
    BY <1>5, <1>6 DEF Running
  <1>8. Handlers'
    BY <1>5, <1>6, <1>7 DEF Control, Handlers, Running
  <1> QED BY <1>4, <1>8

\* A step of a handler.
LEMMA HandleControl ==
  ASSUME Control, NEW t \in Task, Handle(t)
  PROVE  Control'
  <1>1. RegistryTyped /\ StorageTyped /\ TasksTyped /\ DeviceTyped
    BY TypedParts DEF Control
  <1>2. Running(t) /\ entry[t] \in Entry /\ UNCHANGED registryVars
    <2>1. Running(t) /\ UNCHANGED registryVars
      BY DEF Handle, StoreGroup, StoreRaises, FinishStore, ReadMisses, LoadGroup, LoadRaises,
             FinishRetrieve, Found, Running
    <2> QED BY <2>1 DEF Control, Handlers
  <1>3. RegistryTyped'
    BY <1>1, <1>2, StillTyped
  <1>4. Wanted(t) \subseteq ObjectKey /\ acc[t] \subseteq ObjectKey
    BY <1>1, ResolvedEntry DEF Control, TasksTyped
  <1>5. CASE StoreGroup(t) \/ StoreRaises(t)
    <2>1. PICK given \in SUBSET ObjectKey : \E copied \in SUBSET given :
            /\ Granted(t, given)
            /\ acc' = [acc EXCEPT ![t] = @ \cup given]
            /\ Enqueue(entry[t], Copies("save", t, copied))
      BY <1>5 DEF StoreGroup, StoreRaises
    <2>2. PICK copied \in SUBSET given : Enqueue(entry[t], Copies("save", t, copied))
      BY <2>1
    <2>3. StorageTyped'
      BY <1>1, <1>5, <2>1 DEF StorageTyped, Granted, StoreGroup, StoreRaises
    <2>4. DeviceTyped'
      <3>1. Copies("save", t, copied) \in Seq(ItemType)
        BY CopiesTyped DEF ItemKind
      <3> QED BY <1>2, <1>5, <2>2, <3>1, EnqueueTyped DEF Control, StoreGroup, StoreRaises
    <2>5. TasksTyped' /\ Handlers'
      <3> DEFINE more == acc[t] \cup given
      <3>1. acc' = [acc EXCEPT ![t] = more] /\ more \in SUBSET ObjectKey
        BY <1>1, <1>4, <2>1 DEF TasksTyped
      <3> HIDE DEF more
      <3> QED BY <1>2, <1>5, <3>1, GoingOnControl DEF StoreGroup, StoreRaises, GoOn, taskVars
    <2> QED BY <1>3, <2>3, <2>4, <2>5, TypedParts DEF Control
  <1>6. CASE FinishStore(t) \/ FinishRetrieve(t)
    <2>1. /\ Answer(t) /\ UNCHANGED <<key, ok, obj, written, callbacks>>
          /\ acc' = [acc EXCEPT ![t] = {}]
      BY <1>6 DEF FinishStore, FinishRetrieve, storageVars
    <2>2. TasksTyped' /\ Handlers'
      BY <2>1, AnswerControl
    <2>3. PICK items \in Seq(ItemType) : Enqueue(entry[t], items)
      <3>1. /\ <<Item("event", t, {})>> \in Seq(ItemType)
            /\ <<Item("event", t, {}), Item("finishWrite", t, acc[t])>> \in Seq(ItemType)
            /\ <<Item("event", t, {})>> \o Copies("finishRead", t, acc[t]) \in Seq(ItemType)
        <4>1. Item("event", t, {}) \in ItemType /\ Item("finishWrite", t, acc[t]) \in ItemType
              /\ Copies("finishRead", t, acc[t]) \in Seq(ItemType)
          BY <1>4, CopiesTyped DEF ItemKind
        <4> HIDE DEF Copies
        <4> QED BY <4>1, Extend
      <3> QED BY <1>6, <3>1 DEF FinishStore, FinishRetrieve
    <2>4. DeviceTyped'
      BY <1>2, <2>1, <2>3, EnqueueTyped DEF Control
    <2>5. StorageTyped'
      BY <1>1, <2>1, StillTyped
    <2> QED BY <1>3, <2>2, <2>4, <2>5, TypedParts DEF Control
  <1>7. CASE ReadMisses(t) \/ LoadGroup(t) \/ LoadRaises(t)
    <2>1. UNCHANGED <<wpc, key, entry, obj, written>>
      BY <1>7 DEF ReadMisses, LoadGroup, LoadRaises, taskVars, storageVars
    <2>2. TasksTyped' /\ Handlers'
      <3>1. PICK more \in SUBSET ObjectKey : acc' = [acc EXCEPT ![t] = more]
        <4>1. acc' = acc \/ acc' = [acc EXCEPT ![t] = acc[t] \cup Wanted(t)]
          BY <1>1, <1>7 DEF ReadMisses, LoadGroup, LoadRaises, TasksTyped
        <4>2. acc = [acc EXCEPT ![t] = acc[t]]
          BY <1>1 DEF TasksTyped
        <4> QED BY <1>4, <4>1, <4>2
      <3> QED BY <1>2, <1>7, <2>1, <3>1, GoingOnControl
              DEF ReadMisses, LoadGroup, LoadRaises, GoOn, Miss
    <2>3. DeviceTyped'
      <3>1. CASE ReadMisses(t)
        BY <1>1, <3>1, StillTyped DEF ReadMisses, deviceVars
      <3>2. CASE LoadGroup(t) \/ LoadRaises(t)
        <4>1. PICK copied \in SUBSET Wanted(t) : Enqueue(entry[t], Copies("load", t, copied))
          BY <3>2 DEF LoadGroup, LoadRaises
        <4>2. Copies("load", t, copied) \in Seq(ItemType)
          BY <1>4, CopiesTyped DEF ItemKind
        <4> QED BY <1>2, <3>2, <4>1, <4>2, EnqueueTyped DEF Control, LoadGroup, LoadRaises
      <3> QED BY <1>7, <3>1, <3>2
    <2>4. StorageTyped'
      BY <1>1, <2>1, StillTyped
    <2> QED BY <1>3, <2>2, <2>3, <2>4, TypedParts DEF Control
  <1> QED BY <1>5, <1>6, <1>7 DEF Handle

-----------------------------------------------------------------------------
(* Events.                                                                 *)

\* The stream holds the event of an operation, behind position n.
EventAfter(t, e, n) ==
    \E m \in DOMAIN stream[e] : n < m /\ stream[e][m].kind = "event" /\ stream[e][m].task = t

\* The first part of EventsBehind.
EventLinks ==
    \A e \in Entry : \A n \in DOMAIN stream[e] : \A u \in Task :
        stream[e][n].task = u /\ stream[e][n].kind \in {"wait", "save", "load"} =>
            (Running(u) /\ entry[u] = e) \/ EventAfter(u, e, n)

\* Items of the streams are items.
LEMMA ItemsTyped ==
  ASSUME stream \in [Entry -> Seq(ItemType)]
  PROVE  \A e \in Entry : \A n \in DOMAIN stream[e] :
            stream[e][n] \in ItemType /\ stream[e][n].task \in Task /\ stream[e][n].objs \subseteq ObjectKey
  <1> SUFFICES ASSUME NEW e \in Entry, NEW n \in DOMAIN stream[e]
               PROVE  stream[e][n] \in ItemType /\ stream[e][n].task \in Task
                      /\ stream[e][n].objs \subseteq ObjectKey
    OBVIOUS
  <1>1. stream[e] \in Seq(ItemType)
    OBVIOUS
  <1>2. stream[e][n] \in ItemType
    BY <1>1
  <1> QED BY <1>2 DEF ItemType

\* EventsBehind, with its parts named.
LEMMA EventsParts ==
  ASSUME Typed
  PROVE  EventsBehind <=> EventLinks /\ \A t \in Task : wpc[t] = "idle" => ~EventPending(t)
  <1>1. \A e \in Entry : \A n \in DOMAIN stream[e] : stream[e][n].task \in Task
    BY ItemsTyped DEF Typed
  <1> QED BY <1>1 DEF EventsBehind, EventLinks, EventAfter

\* The same after a step.
LEMMA EventsPartsAfter ==
  ASSUME Typed'
  PROVE  EventsBehind' <=> EventLinks' /\ \A t \in Task : wpc'[t] = "idle" => ~EventPending(t)'
  <1>1. stream' \in [Entry -> Seq(ItemType)]
    BY DEF Typed
  <1>2. \A e \in Entry : \A n \in DOMAIN stream'[e] : stream'[e][n].task \in Task
    <2> SUFFICES ASSUME NEW e \in Entry, NEW n \in DOMAIN stream'[e]
                 PROVE  stream'[e][n].task \in Task
      OBVIOUS
    <2>1. stream'[e] \in Seq(ItemType)
      BY <1>1
    <2>2. stream'[e][n] \in ItemType
      BY <2>1
    <2> QED BY <2>2 DEF ItemType
  <1> QED BY <1>2 DEF EventsBehind, EventLinks, EventAfter

\* Positions of a stream and of one that has grown.
LEMMA Positions ==
  ASSUME Typed, Typed', NEW e \in Entry, NEW S, Grown(e, S), NEW f \in Entry
  PROVE  /\ Len(stream[f]) \in Nat /\ DOMAIN stream[f] = 1 .. Len(stream[f])
         /\ DOMAIN stream[f] \subseteq DOMAIN stream'[f]
         /\ \A n \in DOMAIN stream[f] : stream'[f][n] = stream[f][n]
         /\ \A n \in DOMAIN stream'[f] \ DOMAIN stream[f] :
              f = e /\ stream'[f][n] \in S /\ n > Len(stream[f])
         /\ \A n \in DOMAIN stream[f] : stream[f][n] \in ItemType
         /\ \A n \in DOMAIN stream'[f] : stream'[f][n] \in ItemType
  <1>1. /\ stream[f] \in Seq(ItemType) /\ stream'[f] \in Seq(ItemType)
    BY DEF Typed
  <1>2. /\ Len(stream[f]) \in Nat /\ DOMAIN stream[f] = 1 .. Len(stream[f])
        /\ Len(stream'[f]) \in Nat /\ DOMAIN stream'[f] = 1 .. Len(stream'[f])
        /\ \A n \in DOMAIN stream[f] : stream[f][n] \in ItemType
        /\ \A n \in DOMAIN stream'[f] : stream'[f][n] \in ItemType
    BY <1>1
  <1>3. CASE f = e
    BY <1>2, <1>3 DEF Grown
  <1>4. CASE f # e
    <2>1. stream'[f] = stream[f]
      BY <1>4 DEF Grown
    <2> QED BY <1>2, <2>1
  <1> QED BY <1>3, <1>4

\* A step that leaves the streams alone and ends no run.
LEMMA EventsLeftAlone ==
  ASSUME Control, Control', EventsBehind, UNCHANGED stream,
         \A u \in Task : Running(u) => Running(u)' /\ entry'[u] = entry[u],
         \A u \in Task : wpc'[u] = "idle" => wpc[u] = "idle" \/ ~EventPending(u)
  PROVE  EventsBehind'
  <1>1. EventLinks /\ \A u \in Task : wpc[u] = "idle" => ~EventPending(u)
    BY EventsParts DEF Control
  <1>2. \A u \in Task : EventPending(u)' <=> EventPending(u)
    BY DEF EventPending
  <1>3. \A u \in Task : \A e \in Entry : \A n \in DOMAIN stream[e] :
          EventAfter(u, e, n)' <=> EventAfter(u, e, n)
    BY DEF EventAfter
  <1>4. EventLinks'
    BY <1>1, <1>3 DEF EventLinks
  <1> QED BY <1>1, <1>2, <1>4, EventsPartsAfter DEF Control

\* A step of one operation, which may have got items behind a stream: they are
\* its own; its copies are those of a run that goes on, and a run that ends
\* has its event enqueued.
LEMMA EventsGrow ==
  ASSUME Control, Control', EventsBehind, NEW t \in Task, NEW e \in Entry,
         NEW S \in SUBSET ItemType, Grown(e, S),
         \A u \in Task \ {t} : /\ Running(u) => Running(u)'
                               /\ entry'[u] = entry[u] /\ wpc'[u] = wpc[u],
         wpc'[t] # "idle",
         \A x \in S : x.task = t,
         \A x \in S : x.kind \in {"wait", "save", "load"} => Running(t)' /\ entry'[t] = e,
         Running(t) => /\ entry[t] = e
                       /\ \/ Running(t)' /\ entry'[t] = e
                          \/ /\ Len(stream[e]) + 1 \in DOMAIN stream'[e]
                             /\ stream'[e][Len(stream[e]) + 1] = Item("event", t, {})
  PROVE  EventsBehind'
  <1> USE DEF Control
  <1>0. EventLinks /\ \A u \in Task : wpc[u] = "idle" => ~EventPending(u)
    BY EventsParts
  <1>1. ASSUME NEW f \in Entry, NEW n \in DOMAIN stream'[f], NEW u \in Task,
               stream'[f][n].task = u, stream'[f][n].kind \in {"wait", "save", "load"}
        PROVE  (Running(u)' /\ entry'[u] = f) \/ EventAfter(u, f, n)'
    <2>2. CASE n \notin DOMAIN stream[f]
      <3>1. f = e /\ stream'[f][n] \in S
        BY <2>2, Positions
      <3> QED BY <1>1, <3>1
    <2>3. CASE n \in DOMAIN stream[f]
      <3>1. stream'[f][n] = stream[f][n]
        BY <2>3, Positions
      <3>2. (Running(u) /\ entry[u] = f) \/ EventAfter(u, f, n)
        BY <1>0, <1>1, <2>3, <3>1 DEF EventLinks
      <3>3. CASE EventAfter(u, f, n)
        <4>1. PICK m \in DOMAIN stream[f] :
                n < m /\ stream[f][m].kind = "event" /\ stream[f][m].task = u
          BY <3>3 DEF EventAfter
        <4>2. m \in DOMAIN stream'[f] /\ stream'[f][m] = stream[f][m]
          BY Positions
        <4>3. EventAfter(u, f, n)'
          BY <4>1, <4>2 DEF EventAfter
        <4> QED BY <4>3
      <3>4. CASE Running(u) /\ entry[u] = f /\ u # t
        BY <3>4
      <3>5. CASE Running(u) /\ entry[u] = f /\ u = t
        <4>1. CASE Running(t)' /\ entry'[t] = e
          BY <3>5, <4>1
        <4>2. CASE /\ Len(stream[e]) + 1 \in DOMAIN stream'[e]
                   /\ stream'[e][Len(stream[e]) + 1] = Item("event", t, {})
          <5>1. f = e /\ n < Len(stream[e]) + 1
            BY <2>3, <3>5, Positions
          <5>2. EventAfter(t, e, n)'
            BY <4>2, <5>1 DEF EventAfter, Item
          <5> QED BY <3>5, <5>1, <5>2
        <4> QED BY <3>5, <4>1, <4>2
      <3> QED BY <3>2, <3>3, <3>4, <3>5
    <2> QED BY <2>2, <2>3
  <1>2. ASSUME NEW u \in Task, wpc'[u] = "idle" PROVE ~EventPending(u)'
    <2>1. u # t /\ ~EventPending(u)
      BY <1>0, <1>2
    <2>2. SUFFICES ASSUME NEW f \in Entry, NEW n \in DOMAIN stream'[f],
                          stream'[f][n].kind = "event", stream'[f][n].task = u
                   PROVE  FALSE
      BY DEF EventPending
    <2>3. n \in DOMAIN stream[f] /\ stream'[f][n] = stream[f][n]
      BY <2>1, <2>2, Positions
    <2> QED BY <2>1, <2>2, <2>3 DEF EventPending
  <1>3. EventLinks'
    BY <1>1 DEF EventLinks
  <1> QED BY <1>2, <1>3, EventsPartsAfter

\* Positions of a stream whose first item is done.
LEMMA ShorterStream ==
  ASSUME Typed, NEW e \in Entry, stream[e] # <<>>, stream' = [stream EXCEPT ![e] = Tail(@)]
  PROVE  /\ stream' \in [Entry -> Seq(ItemType)]
         /\ \A f \in Entry \ {e} : stream'[f] = stream[f]
         /\ Head(stream[e]) = stream[e][1] /\ 1 \in DOMAIN stream[e] /\ Head(stream[e]) \in ItemType
         /\ \A n \in DOMAIN stream'[e] :
              n \in Nat \ {0} /\ n + 1 \in DOMAIN stream[e] /\ stream'[e][n] = stream[e][n + 1]
         /\ \A n \in DOMAIN stream[e] :
              n \in Nat \ {0} /\ (n > 1 => n - 1 \in DOMAIN stream'[e] /\ stream'[e][n - 1] = stream[e][n])
  <1>1. stream[e] \in Seq(ItemType) /\ stream'[e] = Tail(stream[e])
        /\ \A f \in Entry \ {e} : stream'[f] = stream[f]
    BY DEF Typed
  <1> DEFINE s == stream[e]
             r == stream'[e]
  <1>2. /\ Tail(s) \in Seq(ItemType) /\ Head(s) \in ItemType /\ Head(s) = s[1]
        /\ Len(s) \in Nat \ {0} /\ Len(Tail(s)) = Len(s) - 1
        /\ \A n \in 1 .. (Len(s) - 1) : Tail(s)[n] = s[n + 1]
    BY <1>1, Shorten
  <1>3. stream' \in [Entry -> Seq(ItemType)]
    BY <1>1, <1>2 DEF Typed
  <1>4. r = Tail(s) /\ r \in Seq(ItemType) /\ s \in Seq(ItemType)
    BY <1>1, <1>2
  <1> HIDE DEF s, r
  <1>5. DOMAIN s = 1 .. Len(s) /\ DOMAIN r = 1 .. (Len(s) - 1)
    BY <1>2, <1>4
  <1>6. \A n \in 1 .. (Len(s) - 1) : r[n] = s[n + 1]
    BY <1>2, <1>4
  <1>7. \A n \in DOMAIN r : n \in Nat \ {0} /\ n + 1 \in DOMAIN s /\ r[n] = s[n + 1]
    BY <1>2, <1>5, <1>6
  <1>8. ASSUME NEW n \in DOMAIN s, n > 1 PROVE n - 1 \in DOMAIN r /\ r[n - 1] = s[n]
    <2>1. n - 1 \in 1 .. (Len(s) - 1) /\ (n - 1) + 1 = n
      BY <1>2, <1>5, <1>8
    <2> QED BY <1>5, <1>6, <2>1
  <1>9. 1 \in DOMAIN s /\ \A n \in DOMAIN s : n \in Nat \ {0}
    BY <1>2, <1>5
  <1> QED BY <1>1, <1>2, <1>3, <1>7, <1>8, <1>9 DEF s, r

\* The stream of e goes on.
LEMMA EventsRun ==
  ASSUME Control, Control', EventsBehind, NEW e \in Entry, stream[e] # <<>>,
         stream' = [stream EXCEPT ![e] = Tail(@)], UNCHANGED <<wpc, hpc, entry>>
  PROVE  EventsBehind'
  <1> USE DEF Control
  <1>1. \A u \in Task : Running(u)' <=> Running(u)
    BY DEF Running
  <1>2. EventLinks /\ \A u \in Task : wpc[u] = "idle" => ~EventPending(u)
    BY EventsParts
  <1>3. ASSUME NEW f \in Entry, NEW n \in DOMAIN stream'[f]
        PROVE  \E p \in DOMAIN stream[f] :
                 /\ stream'[f][n] = stream[f][p]
                 /\ \A u \in Task : EventAfter(u, f, p) => EventAfter(u, f, n)'
    <2>1. CASE f # e
      <3>1. stream'[f] = stream[f]
        BY <2>1, ShorterStream
      <3>2. \A u \in Task : EventAfter(u, f, n) => EventAfter(u, f, n)'
        BY <3>1 DEF EventAfter
      <3> QED BY <3>1, <3>2
    <2>2. CASE f = e
      <3>1. n \in Nat \ {0} /\ n + 1 \in DOMAIN stream[e] /\ stream'[e][n] = stream[e][n + 1]
        BY <2>2, ShorterStream
      <3>2. ASSUME NEW u \in Task, EventAfter(u, e, n + 1) PROVE EventAfter(u, e, n)'
        <4>1. PICK m \in DOMAIN stream[e] :
                n + 1 < m /\ stream[e][m].kind = "event" /\ stream[e][m].task = u
          BY <3>2 DEF EventAfter
        <4>2. m \in Nat \ {0}
          BY <4>1, ShorterStream
        <4>3. m > 1
          BY <3>1, <4>1, <4>2
        <4>4. m - 1 \in DOMAIN stream'[e] /\ stream'[e][m - 1] = stream[e][m]
          BY <4>1, <4>3, ShorterStream
        <4>5. n < m - 1
          BY <3>1, <4>1, <4>2
        <4> QED BY <4>1, <4>4, <4>5 DEF EventAfter
      <3> QED BY <2>2, <3>1, <3>2
    <2> QED BY <2>1, <2>2
  <1>4. ASSUME NEW u \in Task, EventPending(u)' PROVE EventPending(u)
    BY <1>3, <1>4 DEF EventPending
  <1>5. ASSUME NEW f \in Entry, NEW n \in DOMAIN stream'[f], NEW u \in Task,
               stream'[f][n].task = u, stream'[f][n].kind \in {"wait", "save", "load"}
        PROVE  (Running(u)' /\ entry'[u] = f) \/ EventAfter(u, f, n)'
    <2>1. PICK p \in DOMAIN stream[f] :
            /\ stream'[f][n] = stream[f][p]
            /\ \A v \in Task : EventAfter(v, f, p) => EventAfter(v, f, n)'
      BY <1>3
    <2>2. (Running(u) /\ entry[u] = f) \/ EventAfter(u, f, p)
      BY <1>2, <1>5, <2>1 DEF EventLinks
    <2> QED BY <1>1, <2>1, <2>2
  <1>6. EventLinks'
    BY <1>5 DEF EventLinks
  <1> QED BY <1>2, <1>4, <1>6, EventsPartsAfter

\* The steps of an operation that leave the streams alone.
LEMMA WorkerEvents ==
  ASSUME Control, Control', EventsBehind, NEW t \in Task, Worker(t)
  PROVE  EventsBehind'
  <1>1. UNCHANGED <<stream, entry>>
    BY DEF Worker, SubmitStore, SubmitRetrieve, Send, EngineEvent, FutureDone, deviceVars, handlerVars
  <1>2. \A u \in Task : Running(u) => Running(u)'
    <2>1. hpc' = hpc \/ (hpc[t] = "none" /\ hpc' = [hpc EXCEPT ![t] = "queued"])
      BY DEF Worker, SubmitStore, SubmitRetrieve, Send, EngineEvent, FutureDone, handlerVars,
             Control, Handlers
    <2> QED BY <2>1 DEF Control, Typed, Running
  <1>3. \A u \in Task : wpc'[u] = "idle" => wpc[u] = "idle" \/ ~EventPending(u)
    <2>1. \/ wpc' = wpc \/ wpc' = [wpc EXCEPT ![t] = "sent"]
          \/ wpc' = [wpc EXCEPT ![t] = "idle"] /\ ~EventPending(t)
      BY DEF Worker, SubmitStore, SubmitRetrieve, Send, EngineEvent, FutureDone, Ended, taskVars
    <2> QED BY <2>1 DEF Control, Typed
  <1> QED BY <1>1, <1>2, <1>3, EventsLeftAlone

\* What an answer does to the task.
LEMMA AnswerFacts ==
  ASSUME Typed, NEW t \in Task, Answer(t)
  PROVE  /\ \A u \in Task \ {t} : /\ hpc'[u] = hpc[u] /\ entry'[u] = entry[u] /\ wpc'[u] = wpc[u]
         /\ hpc'[t] = "none" /\ wpc'[t] = "answered"
  BY DEF Typed, Answer

\* The beginning of a request.
LEMMA ResolveEvents ==
  ASSUME Control, Control', EventsBehind, NEW t \in Task, Resolve(t)
  PROVE  EventsBehind'
  <1>1. hpc[t] = "queued" /\ ~Running(t) /\ wpc[t] = "sent"
    BY DEF Resolve, NotRegistered, Malformed, Underflow, BeginStore, BeginRetrieve, Resolved,
           Running, Control, Handlers
  <1>2. CASE NotRegistered(t) \/ Malformed(t)
    <2>1. Answer(t) /\ UNCHANGED stream
      BY <1>2 DEF NotRegistered, Malformed, deviceVars
    <2> QED BY <1>1, <2>1, AnswerFacts, EventsLeftAlone DEF Control, Running
  <1>3. CASE Underflow(t)
    <2> DEFINE e == contexts[InstanceOf[t]]
               S == {Item("event", t, {})}
    <2>1. e \in Entry /\ Answer(t) /\ Enqueue(e, <<Item("event", t, {})>>)
      BY <1>3, ResolvedEntry DEF Control, Underflow, Resolved
    <2>2. S \subseteq ItemType /\ <<Item("event", t, {})>> \in Seq(S)
      BY CopiesTyped DEF ItemKind
    <2> HIDE DEF e, S
    <2>3. Grown(e, S)
      BY <2>1, <2>2, EnqueueGrows DEF Control
    <2>4. \A x \in S : x.task = t /\ x.kind = "event"
      BY DEF S, Item
    <2> QED BY <1>1, <2>1, <2>2, <2>3, <2>4, AnswerFacts, EventsGrow DEF Control, Running
  <1>4. CASE BeginStore(t)
    <2> DEFINE e == contexts[InstanceOf[t]]
               S == {Item("wait", t, {})}
    <2>1. e \in Entry /\ Enqueue(e, <<Item("wait", t, {})>>)
      BY <1>4, ResolvedEntry DEF Control, BeginStore, Resolved
    <2>2. S \subseteq ItemType /\ <<Item("wait", t, {})>> \in Seq(S)
      BY CopiesTyped DEF ItemKind
    <2>3. /\ hpc' = [hpc EXCEPT ![t] = "store"] /\ entry' = [entry EXCEPT ![t] = e]
          /\ UNCHANGED wpc
      BY <1>4 DEF BeginStore, taskVars
    <2> HIDE DEF e, S
    <2>4. Grown(e, S)
      BY <2>1, <2>2, EnqueueGrows DEF Control
    <2>5. \A x \in S : x.task = t
      BY DEF S, Item
    <2>6. Running(t)' /\ entry'[t] = e
      BY <2>3 DEF Control, Typed, Running
    <2>7. \A u \in Task \ {t} : (Running(u) => Running(u)') /\ entry'[u] = entry[u] /\ wpc'[u] = wpc[u]
      BY <2>3 DEF Control, Typed, Running
    <2> QED BY <1>1, <2>1, <2>2, <2>3, <2>4, <2>5, <2>6, <2>7, EventsGrow
  <1>5. CASE BeginRetrieve(t)
    <2>1. /\ hpc' = [hpc EXCEPT ![t] = "load"]
          /\ entry' = [entry EXCEPT ![t] = contexts[InstanceOf[t]]]
          /\ UNCHANGED <<wpc, stream>>
      BY <1>5 DEF BeginRetrieve, taskVars, deviceVars
    <2>2. \A u \in Task : Running(u) => u # t /\ Running(u)' /\ entry'[u] = entry[u]
      BY <1>1, <2>1 DEF Control, Typed, Running
    <2> QED BY <2>1, <2>2, EventsLeftAlone
  <1> QED BY <1>2, <1>3, <1>4, <1>5 DEF Resolve

\* A handler that goes on.
LEMMA CopyingEvents ==
  ASSUME Control, Control', EventsBehind, NEW t \in Task,
         Running(t), Running(t)', UNCHANGED <<entry, wpc>>,
         \A u \in Task \ {t} : hpc'[u] = hpc[u],
         NEW kind \in {"save", "load"}, NEW objs \in SUBSET ObjectKey,
         Enqueue(entry[t], Copies(kind, t, objs))
  PROVE  EventsBehind'
  <1> DEFINE S == {Item(kind, t, objs)}
  <1>1. S \subseteq ItemType /\ Copies(kind, t, objs) \in Seq(S)
    BY CopiesTyped DEF ItemKind
  <1>2. entry[t] \in Entry /\ wpc[t] = "sent"
    BY DEF Control, Handlers, Running
  <1>3. \A x \in S : x.task = t
    BY DEF Item
  <1> HIDE DEF S
  <1>4. Grown(entry[t], S)
    BY <1>1, <1>2, EnqueueGrows DEF Control
  <1>5. \A u \in Task \ {t} : Running(u) => Running(u)'
    BY DEF Running
  <1> QED BY <1>1, <1>2, <1>3, <1>4, <1>5, EventsGrow

\* A handler that comes to its end.
LEMMA FinishingEvents ==
  ASSUME Control, Control', EventsBehind, NEW t \in Task, FinishStore(t) \/ FinishRetrieve(t)
  PROVE  EventsBehind'
  <1> DEFINE e == entry[t]
             event == Item("event", t, {})
             S == {event, Item("finishWrite", t, acc[t]), Item("finishRead", t, acc[t])}
  <1>1. Running(t) /\ e \in Entry /\ Answer(t) /\ acc[t] \subseteq ObjectKey
    BY DEF FinishStore, FinishRetrieve, Running, Control, Handlers, Typed
  <1>2. S \subseteq ItemType
    BY <1>1, CopiesTyped DEF ItemKind
  <1>3. PICK items \in Seq(S) : Enqueue(e, items) /\ Len(items) \in Nat \ {0} /\ items[1] = event
    <2> DEFINE write == Item("finishWrite", t, acc[t])
               read == Item("finishRead", t, acc[t])
    <2>1. <<event>> \in Seq(S) /\ Len(<<event>>) = 1 /\ <<event>>[1] = event
      OBVIOUS
    <2>2. <<event, write>> \in Seq(S) /\ Len(<<event, write>>) = 2 /\ <<event, write>>[1] = event
      OBVIOUS
    <2>3. <<event, read>> \in Seq(S) /\ Len(<<event, read>>) = 2 /\ <<event, read>>[1] = event
      OBVIOUS
    <2>4. /\ Copies("finishRead", t, acc[t]) \in {<<>>, <<read>>}
          /\ \/ Enqueue(e, <<event>>) \/ Enqueue(e, <<event, write>>)
             \/ Enqueue(e, <<event>> \o Copies("finishRead", t, acc[t]))
      BY DEF Copies, NoItems, FinishStore, FinishRetrieve
    <2> HIDE DEF event, write, read, S, e
    <2>5. <<event>> \o <<>> = <<event>> /\ <<event>> \o <<read>> = <<event, read>>
      <3>1. event \in S /\ read \in S
        BY DEF S, read
      <3> QED BY <3>1, Pair
    <2>6. PICK items \in {<<event>>, <<event, write>>, <<event, read>>} : Enqueue(e, items)
      BY <2>4, <2>5
    <2>7. items \in Seq(S) /\ (Len(items) = 1 \/ Len(items) = 2) /\ items[1] = event
      <3>1. CASE items = <<event>>
        BY <2>1, <3>1
      <3>2. CASE items = <<event, write>>
        BY <2>2, <3>2
      <3>3. CASE items = <<event, read>>
        BY <2>3, <3>3
      <3> QED BY <2>6, <3>1, <3>2, <3>3
    <2> QED BY <2>6, <2>7
  <1>4. \A x \in S : x.task = t /\ x.kind \notin {"wait", "save", "load"}
    BY DEF Item
  <1> HIDE DEF S, e, event
  <1>5. /\ Grown(e, S) /\ Len(stream'[e]) = Len(stream[e]) + Len(items)
        /\ \A n \in 1 .. Len(items) : stream'[e][Len(stream[e]) + n] = items[n]
    BY <1>1, <1>2, <1>3, EnqueueGrows DEF Control
  <1>6. Len(stream[e]) + 1 \in DOMAIN stream'[e]
    <2>1. stream'[e] \in Seq(ItemType) /\ stream[e] \in Seq(ItemType)
      BY <1>1 DEF Control, Typed
    <2>2. /\ DOMAIN stream'[e] = 1 .. Len(stream'[e]) /\ Len(stream[e]) \in Nat
      BY <2>1
    <2> QED BY <1>3, <1>5, <2>2
  <1>7. stream'[e][Len(stream[e]) + 1] = Item("event", t, {})
    BY <1>3, <1>5 DEF event
  <1>8. \A u \in Task \ {t} : (Running(u) => Running(u)') /\ entry'[u] = entry[u] /\ wpc'[u] = wpc[u]
    BY <1>1, AnswerFacts DEF Control, Running
  <1>9. wpc'[t] # "idle"
    BY <1>1, AnswerFacts DEF Control
  <1>10. Running(t) => /\ entry[t] = e
                       /\ \/ Running(t)' /\ entry'[t] = e
                          \/ /\ Len(stream[e]) + 1 \in DOMAIN stream'[e]
                             /\ stream'[e][Len(stream[e]) + 1] = Item("event", t, {})
    BY <1>6, <1>7 DEF e
  <1> QED BY <1>1, <1>2, <1>4, <1>5, <1>8, <1>9, <1>10, EventsGrow

\* A step of a handler.
LEMMA HandleEvents ==
  ASSUME Control, Control', EventsBehind, NEW t \in Task, Handle(t)
  PROVE  EventsBehind'
  <1>1. CASE FinishStore(t) \/ FinishRetrieve(t)
    BY <1>1, FinishingEvents
  <1>2. CASE ~(FinishStore(t) \/ FinishRetrieve(t))
    <2>1. /\ Running(t) /\ UNCHANGED <<entry, wpc>>
          /\ hpc' = hpc \/ hpc' = [hpc EXCEPT ![t] = "finish"]
      BY <1>2 DEF Handle, StoreGroup, StoreRaises, ReadMisses, LoadGroup, LoadRaises, Found,
                  GoOn, Miss, Running, taskVars
    <2>2. Running(t)' /\ \A u \in Task \ {t} : hpc'[u] = hpc[u]
      BY <2>1 DEF Control, Typed, Running
    <2>3. CASE ReadMisses(t)
      <3>1. UNCHANGED stream
        BY <2>3 DEF ReadMisses, deviceVars
      <3>2. \A u \in Task : Running(u) => Running(u)'
        BY <2>2 DEF Running
      <3> QED BY <2>1, <3>1, <3>2, EventsLeftAlone
    <2>4. CASE StoreGroup(t) \/ StoreRaises(t)
      <3>1. PICK objs \in SUBSET ObjectKey : Enqueue(entry[t], Copies("save", t, objs))
        <4>1. ASSUME NEW given \in SUBSET ObjectKey, NEW copied \in SUBSET given
              PROVE  copied \in SUBSET ObjectKey
          OBVIOUS
        <4> QED BY <2>4, <4>1 DEF StoreGroup, StoreRaises
      <3> QED BY <2>1, <2>2, <3>1, CopyingEvents
    <2>5. CASE LoadGroup(t) \/ LoadRaises(t)
      <3>1. Wanted(t) \subseteq ObjectKey
        BY ResolvedEntry DEF Control
      <3>2. PICK objs \in SUBSET Wanted(t) : Enqueue(entry[t], Copies("load", t, objs))
        BY <2>5 DEF LoadGroup, LoadRaises
      <3>3. objs \in SUBSET ObjectKey
        BY <3>1
      <3> QED BY <2>1, <2>2, <3>2, <3>3, CopyingEvents
    <2> QED BY <1>2, <2>3, <2>4, <2>5 DEF Handle
  <1> QED BY <1>1, <1>2

-----------------------------------------------------------------------------
(* Write locks and copies.                                                 *)

Content == Locked /\ Apart /\ CopiesFirst

\* The items of the streams stay where they are, and what comes behind them
\* gives no write lock back.
OnlyCopiesAdded ==
    \A f \in Entry :
        /\ \A n \in DOMAIN stream[f] : n \in DOMAIN stream'[f] /\ stream'[f][n] = stream[f][n]
        /\ \A n \in DOMAIN stream'[f] \ DOMAIN stream[f] : Writes(stream'[f][n]) = {}

\* Streams that are left alone, and one that has grown by such items.
LEMMA CopiesAdded ==
  ASSUME Typed, Typed'
  PROVE  /\ UNCHANGED stream => OnlyCopiesAdded
         /\ \A e \in Entry : \A S : Grown(e, S) /\ (\A x \in S : Writes(x) = {}) => OnlyCopiesAdded
  <1>1. UNCHANGED stream => OnlyCopiesAdded
    BY DEF OnlyCopiesAdded
  <1>2. ASSUME NEW e \in Entry, NEW S, Grown(e, S), \A x \in S : Writes(x) = {}
        PROVE  OnlyCopiesAdded
    BY <1>2, Positions DEF OnlyCopiesAdded
  <1> QED BY <1>1, <1>2

\* A copy that is under way stays so.
LEMMA CopiesStay ==
  ASSUME OnlyCopiesAdded, NEW o, NEW e \in Entry, o \in written => o \in written'
  PROVE  /\ \A n : CopiedBefore(o, e, n) => CopiedBefore(o, e, n)'
         /\ (o \in written \/ \E m \in DOMAIN stream[e] : Copying(o, e, m))
              => (o \in written' \/ \E m \in DOMAIN stream'[e] : Copying(o, e, m)')
  <1>1. \A m \in DOMAIN stream[e] : m \in DOMAIN stream'[e] /\ (Copying(o, e, m)' <=> Copying(o, e, m))
    BY DEF OnlyCopiesAdded, Copying
  <1> QED BY <1>1 DEF CopiedBefore

\* Every write lock a step could give back is one of before.
LEMMA SameWrites ==
  ASSUME OnlyCopiesAdded, NEW f \in Entry, NEW n \in DOMAIN stream'[f], Writes(stream'[f][n]) # {}
  PROVE  n \in DOMAIN stream[f] /\ stream'[f][n] = stream[f][n]
  BY DEF OnlyCopiesAdded

\* Callbacks of the dispatcher are items, of objects.
LEMMA CallbacksTyped ==
  ASSUME Typed
  PROVE  \A n \in DOMAIN callbacks :
            callbacks[n] \in ItemType /\ Writes(callbacks[n]) \subseteq ObjectKey
  <1> SUFFICES ASSUME NEW n \in DOMAIN callbacks
               PROVE  callbacks[n] \in ItemType /\ Writes(callbacks[n]) \subseteq ObjectKey
    OBVIOUS
  <1>1. callbacks \in Seq(ItemType)
    BY DEF Typed
  <1>2. callbacks[n] \in ItemType
    BY <1>1
  <1> QED BY <1>2 DEF ItemType, Writes

\* A step that reserves and publishes nothing.
LEMMA QuietContent ==
  ASSUME Control, Control', Content, OnlyCopiesAdded, UNCHANGED callbacks,
         \A o \in ObjectKey : obj'[o] = "readable" =>
            obj[o] = "readable" /\ (o \in written => o \in written'),
         \A o \in ObjectKey : obj[o] = "writing" =>
            obj'[o] = "writing" /\ (o \in written => o \in written'),
         \A t \in StoreTask : acc'[t] # {} =>
            /\ acc'[t] = acc[t] /\ entry'[t] = entry[t]
            /\ Saving(t)' => Saving(t) /\ Running(t)
  PROVE  Content'
  <1> USE DEF Control, Content
  <1>1. \A t \in StoreTask : acc[t] \subseteq ObjectKey
    BY DEF Typed, StoreTask
  <1>2. \A e \in Entry : \A n \in DOMAIN stream[e] : Writes(stream[e][n]) \subseteq ObjectKey
    BY ItemsTyped DEF Typed, Writes
  <1>3. \A n \in DOMAIN callbacks : callbacks[n] \in ItemType /\ Writes(callbacks[n]) \subseteq ObjectKey
    BY CallbacksTyped
  <1>4. Locked'
    <2>1. \A t \in StoreTask : \A o \in acc'[t] : obj'[o] = "writing"
      BY <1>1 DEF Locked
    <2>2. \A e \in Entry : \A n \in DOMAIN stream'[e] : \A o \in Writes(stream'[e][n]) : obj'[o] = "writing"
      BY <1>2, SameWrites DEF Locked
    <2>3. \A n \in DOMAIN callbacks' : \A o \in Writes(callbacks'[n]) : obj'[o] = "writing"
      BY <1>3 DEF Locked
    <2> QED BY <2>1, <2>2, <2>3 DEF Locked
  <1>5. Apart'
    <2>1. \A t \in StoreTask : acc'[t] \subseteq acc[t]
      OBVIOUS
    <2>2. \A e \in Entry : \A n \in DOMAIN stream'[e] :
            Writes(stream'[e][n]) = {} \/ (n \in DOMAIN stream[e] /\ stream'[e][n] = stream[e][n])
      BY SameWrites
    <2>3. \A t, u \in StoreTask : t # u => acc'[t] \cap acc'[u] = {}
      BY <2>1 DEF Apart
    <2>4. \A t \in StoreTask : \A e \in Entry : \A n \in DOMAIN stream'[e] :
            acc'[t] \cap Writes(stream'[e][n]) = {}
      BY <2>1, <2>2 DEF Apart
    <2>5. \A t \in StoreTask : \A n \in DOMAIN callbacks' : acc'[t] \cap Writes(callbacks'[n]) = {}
      BY <2>1 DEF Apart
    <2>6. \A e, f \in Entry : \A n \in DOMAIN stream'[e] : \A m \in DOMAIN stream'[f] :
            e # f \/ n # m => Writes(stream'[e][n]) \cap Writes(stream'[f][m]) = {}
      <3> SUFFICES ASSUME NEW e \in Entry, NEW f \in Entry, NEW n \in DOMAIN stream'[e],
                          NEW m \in DOMAIN stream'[f], e # f \/ n # m,
                          Writes(stream'[e][n]) # {}, Writes(stream'[f][m]) # {}
                   PROVE  Writes(stream'[e][n]) \cap Writes(stream'[f][m]) = {}
        OBVIOUS
      <3>1. /\ n \in DOMAIN stream[e] /\ stream'[e][n] = stream[e][n]
            /\ m \in DOMAIN stream[f] /\ stream'[f][m] = stream[f][m]
        BY <2>2
      <3>2. Writes(stream[e][n]) \cap Writes(stream[f][m]) = {}
        BY <3>1 DEF Apart
      <3> QED BY <3>1, <3>2
    <2>7. \A e \in Entry : \A n \in DOMAIN stream'[e] : \A m \in DOMAIN callbacks' :
            Writes(stream'[e][n]) \cap Writes(callbacks'[m]) = {}
      BY <2>2 DEF Apart
    <2>8. \A n, m \in DOMAIN callbacks' : n # m => Writes(callbacks'[n]) \cap Writes(callbacks'[m]) = {}
      BY DEF Apart
    <2> QED BY <2>3, <2>4, <2>5, <2>6, <2>7, <2>8 DEF Apart
  <1>6. CopiesFirst'
    <2>1. PublishedIsCopied'
      BY DEF CopiesFirst, PublishedIsCopied
    <2>2. ASSUME NEW t \in StoreTask, Saving(t)', NEW o \in acc'[t]
          PROVE  o \in written' \/ \E m \in DOMAIN stream'[entry'[t]] : Copying(o, entry[t], m)'
      <3>1. o \in acc[t] /\ entry'[t] = entry[t] /\ Saving(t) /\ entry[t] \in Entry /\ o \in ObjectKey
        BY <1>1, <2>2 DEF Handlers, StoreTask
      <3>2. obj[o] = "writing"
        BY <3>1 DEF Locked
      <3>3. o \in written \/ \E m \in DOMAIN stream[entry[t]] : Copying(o, entry[t], m)
        BY <3>1 DEF CopiesFirst
      <3>4. o \in written => o \in written'
        BY <3>1, <3>2
      <3>5. o \in written' \/ \E m \in DOMAIN stream'[entry[t]] :
              stream'[entry[t]][m].kind = "save" /\ o \in stream'[entry[t]][m].objs
        BY <3>1, <3>3, <3>4 DEF OnlyCopiesAdded, Copying
      <3> QED BY <3>1, <3>5 DEF Copying
    <2>3. ASSUME NEW e \in Entry, NEW n \in DOMAIN stream'[e], NEW o \in Writes(stream'[e][n])
          PROVE  CopiedBefore(o, e, n)'
      <3>1. n \in DOMAIN stream[e] /\ o \in Writes(stream[e][n])
        BY <2>3, SameWrites
      <3>2. obj[o] = "writing" /\ o \in ObjectKey /\ CopiedBefore(o, e, n)
        BY <1>2, <3>1 DEF Locked, CopiesFirst
      <3>3. o \in written => o \in written'
        BY <3>2
      <3> QED BY <3>2, <3>3, CopiesStay
    <2>4. \A n \in DOMAIN callbacks' : Writes(callbacks'[n]) \subseteq written'
      BY <1>3 DEF CopiesFirst, Locked
    <2> QED BY <2>1, <2>2, <2>3, <2>4 DEF CopiesFirst
  <1> QED BY <1>4, <1>5, <1>6

\* A worker's steps and the beginning of a request are quiet.
LEMMA RequestContent ==
  ASSUME Control, Control', Content, NEW t \in Task, Worker(t) \/ Resolve(t)
  PROVE  Content'
  <1> USE DEF Control
  <1>1. UNCHANGED <<obj, written, acc, callbacks>>
    BY DEF Worker, SubmitStore, SubmitRetrieve, Send, EngineEvent, FutureDone, Resolve, NotRegistered,
           Malformed, Underflow, BeginStore, BeginRetrieve, storageVars, handlerVars, deviceVars
  <1>2. OnlyCopiesAdded
    <2>1. CASE UNCHANGED stream
      BY <2>1, CopiesAdded
    <2>2. CASE ~UNCHANGED stream
      <3>1. PICK kind \in {"event", "wait"} :
              contexts[InstanceOf[t]] \in Entry
              /\ Enqueue(contexts[InstanceOf[t]], <<Item(kind, t, {})>>)
        BY <2>2, ResolvedEntry
           DEF Worker, SubmitStore, SubmitRetrieve, Send, EngineEvent, FutureDone, Resolve, NotRegistered,
               Malformed, Underflow, BeginStore, BeginRetrieve, Resolved, deviceVars
      <3> DEFINE S == {Item(kind, t, {})}
                 e == contexts[InstanceOf[t]]
      <3>2. S \subseteq ItemType /\ <<Item(kind, t, {})>> \in Seq(S)
        BY CopiesTyped DEF ItemKind
      <3>3. \A x \in S : Writes(x) = {}
        BY DEF Writes, Item
      <3> HIDE DEF S, e
      <3>4. Grown(e, S)
        BY <3>1, <3>2, EnqueueGrows DEF e
      <3> QED BY <3>1, <3>3, <3>4, CopiesAdded DEF e
    <2> QED BY <2>1, <2>2
  <1>3. acc[t] = {} \/ UNCHANGED handlerVars
    <2>1. CASE EngineEvent(t)
      BY <2>1 DEF EngineEvent
    <2>2. CASE ~EngineEvent(t)
      <3>1. hpc[t] = "queued" \/ wpc[t] # "sent"
        BY <2>2 DEF Worker, SubmitStore, SubmitRetrieve, Send, FutureDone, Ended, Resolve, NotRegistered,
                    Malformed, Underflow, BeginStore, BeginRetrieve, Resolved
      <3>2. ~Running(t)
        BY <3>1 DEF Running, Handlers
      <3> QED BY <3>2 DEF Handlers
    <2> QED BY <2>1, <2>2
  <1>4. \A u \in Task \ {t} : hpc'[u] = hpc[u] /\ entry'[u] = entry[u] /\ ok'[u] = ok[u]
    BY DEF Worker, SubmitStore, SubmitRetrieve, Send, EngineEvent, FutureDone, Resolve, NotRegistered,
           Malformed, Underflow, BeginStore, BeginRetrieve, Answer, handlerVars, Typed
  <1>5. \A u \in StoreTask : acc'[u] # {} =>
            /\ acc'[u] = acc[u] /\ entry'[u] = entry[u]
            /\ Saving(u)' => Saving(u) /\ Running(u)
    <2>1. CASE UNCHANGED handlerVars
      BY <2>1 DEF Saving, Running, handlerVars
    <2>2. CASE acc[t] = {}
      BY <1>1, <1>4, <2>2 DEF Saving, Running, StoreTask
    <2> QED BY <1>3, <2>1, <2>2
  <1> QED BY <1>1, <1>2, <1>5, QuietContent

\* So is a handler that only reads, and one that raises.
LEMMA LoadingContent ==
  ASSUME Control, Control', Content, NEW t \in Task, ReadMisses(t) \/ LoadGroup(t) \/ LoadRaises(t)
  PROVE  Content'
  <1> USE DEF Control
  <1>1. UNCHANGED <<obj, written, callbacks>> /\ t \notin StoreTask
    BY DEF ReadMisses, LoadGroup, LoadRaises, Found, storageVars, deviceVars, Handlers, StoreTask
  <1>2. OnlyCopiesAdded
    <2>1. CASE ReadMisses(t)
      BY <2>1, CopiesAdded DEF ReadMisses, deviceVars
    <2>2. CASE LoadGroup(t) \/ LoadRaises(t)
      <3>1. PICK objs \in SUBSET Wanted(t) : Enqueue(entry[t], Copies("load", t, objs))
        BY <2>2 DEF LoadGroup, LoadRaises
      <3>2. entry[t] \in Entry /\ objs \subseteq ObjectKey
        BY <2>2, <3>1, ResolvedEntry DEF LoadGroup, LoadRaises, Found, Handlers, Running
      <3> DEFINE S == {Item("load", t, objs)}
      <3>3. S \subseteq ItemType /\ Copies("load", t, objs) \in Seq(S)
        BY <3>2, CopiesTyped DEF ItemKind
      <3>4. \A x \in S : Writes(x) = {}
        BY DEF Writes, Item
      <3> HIDE DEF S
      <3>5. Grown(entry[t], S)
        BY <3>1, <3>2, <3>3, EnqueueGrows
      <3> QED BY <3>2, <3>4, <3>5, CopiesAdded
    <2> QED BY <2>1, <2>2
  <1>3. \A u \in Task \ {t} :
          hpc'[u] = hpc[u] /\ entry'[u] = entry[u] /\ ok'[u] = ok[u] /\ acc'[u] = acc[u]
    BY DEF ReadMisses, LoadGroup, LoadRaises, GoOn, Miss, Typed
  <1>4. \A u \in StoreTask : acc'[u] # {} =>
            /\ acc'[u] = acc[u] /\ entry'[u] = entry[u]
            /\ Saving(u)' => Saving(u) /\ Running(u)
    BY <1>1, <1>3 DEF Saving, Running, StoreTask
  <1> QED BY <1>1, <1>2, <1>4, QuietContent

\* The end of a retrieve, and that of a store that publishes nothing.
LEMMA EmptyHandedContent ==
  ASSUME Control, Control', Content, NEW t \in Task,
         FinishRetrieve(t) \/ (FinishStore(t) /\ ~(ok[t] /\ acc[t] # {}))
  PROVE  Content'
  <1> USE DEF Control
  <1> DEFINE event == Item("event", t, {})
             read == Item("finishRead", t, acc[t])
             S == {event, read}
  <1>1. /\ UNCHANGED <<obj, written, callbacks, ok>> /\ Answer(t) /\ acc' = [acc EXCEPT ![t] = {}]
        /\ entry[t] \in Entry /\ acc[t] \subseteq ObjectKey
    BY DEF FinishStore, FinishRetrieve, storageVars, Handlers, Running, Typed
  <1>2. S \subseteq ItemType
    BY <1>1, CopiesTyped DEF ItemKind
  <1>3. PICK items \in Seq(S) : Enqueue(entry[t], items)
    <2>1. <<event>> \in Seq(S) /\ <<event, read>> \in Seq(S)
      OBVIOUS
    <2>2. <<event>> \o <<>> = <<event>> /\ <<event>> \o <<read>> = <<event, read>>
      <3>1. event \in S /\ read \in S
        OBVIOUS
      <3> HIDE DEF event, read, S
      <3> QED BY <3>1, Pair
    <2>3. <<event>> \o Copies("finishRead", t, acc[t]) \in Seq(S)
      BY <2>1, <2>2 DEF Copies, NoItems
    <2> HIDE DEF S
    <2> QED BY <2>1, <2>3 DEF FinishStore, FinishRetrieve
  <1>4. \A x \in S : Writes(x) = {}
    BY DEF Writes, Item
  <1> HIDE DEF S
  <1>5. OnlyCopiesAdded
    <2>1. Grown(entry[t], S)
      BY <1>1, <1>2, <1>3, EnqueueGrows
    <2> QED BY <1>1, <1>4, <2>1, CopiesAdded
  <1>6. \A u \in StoreTask : acc'[u] # {} =>
            /\ acc'[u] = acc[u] /\ entry'[u] = entry[u]
            /\ Saving(u)' => Saving(u) /\ Running(u)
    <2>1. acc'[t] = {} /\ \A u \in Task \ {t} : acc'[u] = acc[u]
      BY <1>1 DEF Typed
    <2> QED BY <1>1, <2>1, AnswerFacts DEF Saving, Running, StoreTask
  <1> QED BY <1>1, <1>5, <1>6, QuietContent

\* The storage drops an object; registrations come and go.
LEMMA AsideContent ==
  ASSUME Control, Control', Content, UNCHANGED <<handlerVars, stream, callbacks>>,
         UNCHANGED <<obj, written>> \/ \E o \in ObjectKey : Unlocked(o) /\ Drop({o})
  PROVE  Content'
  <1> USE DEF Control
  <1>1. OnlyCopiesAdded
    BY CopiesAdded
  <1>2. \A o \in ObjectKey :
          /\ obj'[o] = "readable" => obj[o] = "readable" /\ (o \in written => o \in written')
          /\ obj[o] = "writing" => obj'[o] = "writing" /\ (o \in written => o \in written')
    <2>1. CASE UNCHANGED <<obj, written>>
      BY <2>1
    <2>2. ASSUME NEW p \in ObjectKey, Unlocked(p), Drop({p})
          PROVE  \A o \in ObjectKey :
            /\ obj'[o] = "readable" => obj[o] = "readable" /\ (o \in written => o \in written')
            /\ obj[o] = "writing" => obj'[o] = "writing" /\ (o \in written => o \in written')
      BY <2>2 DEF Unlocked, Drop
    <2> QED BY <2>1, <2>2
  <1>3. \A u \in StoreTask : acc'[u] = acc[u] /\ entry'[u] = entry[u] /\ (Saving(u)' <=> Saving(u))
    BY DEF Saving, handlerVars
  <1>4. \A u \in StoreTask : Saving(u) => Running(u)
    BY DEF Saving, Running
  <1> QED BY <1>1, <1>2, <1>3, <1>4, QuietContent DEF handlerVars

\* A store reserves what nobody has, and enqueues the copies of it.
LEMMA ReservingContent ==
  ASSUME Control, Control', Content, NEW t \in Task, StoreGroup(t) \/ StoreRaises(t)
  PROVE  Content'
  <1> USE DEF Control, Content
  <1>0. PICK given \in SUBSET ObjectKey : \E copied \in SUBSET given :
          /\ Granted(t, given)
          /\ acc' = [acc EXCEPT ![t] = @ \cup given]
          /\ Enqueue(entry[t], Copies("save", t, copied))
          /\ StoreGroup(t) => copied = given
    <2>1. CASE StoreGroup(t)
      BY <2>1 DEF StoreGroup
    <2>2. CASE StoreRaises(t) /\ ~StoreGroup(t)
      BY <2>2 DEF StoreRaises
    <2> QED BY <2>1, <2>2
  <1>1. PICK copied \in SUBSET given :
          /\ Granted(t, given)
          /\ acc' = [acc EXCEPT ![t] = @ \cup given]
          /\ Enqueue(entry[t], Copies("save", t, copied))
          /\ StoreGroup(t) => copied = given
    BY <1>0
  <1>2. /\ UNCHANGED <<written, entry, callbacks>> /\ hpc[t] = "store"
        /\ t \in StoreTask /\ ~ok[t] /\ entry[t] \in Entry
        /\ ~StoreGroup(t) => hpc'[t] = "finish" /\ ok' = ok
    BY DEF StoreGroup, StoreRaises, Handlers, Running, Typed
  <1>3. \A u \in Task \ {t} : hpc'[u] = hpc[u] /\ ok'[u] = ok[u] /\ acc'[u] = acc[u]
    BY <1>1 DEF StoreGroup, StoreRaises, GoOn, Typed
  <1>4. acc'[t] = acc[t] \cup given
    BY <1>1 DEF Typed
  <1>5. /\ \A o \in given : obj[o] = "absent" /\ obj'[o] = "writing"
        /\ \A o \in ObjectKey : obj[o] = "writing" => obj'[o] = "writing"
        /\ \A o \in ObjectKey : obj'[o] = "readable" => obj[o] = "readable"
    BY <1>1 DEF Granted, Reservable, Typed
  <1> DEFINE S == {Item("save", t, copied)}
  <1>6. S \subseteq ItemType /\ Copies("save", t, copied) \in Seq(S)
    BY CopiesTyped DEF ItemKind
  <1>7. \A x \in S : Writes(x) = {} /\ x.kind = "save" /\ x.objs = copied
    BY DEF Writes, Item
  <1>8. copied # {} => Copies("save", t, copied) = <<Item("save", t, copied)>>
    BY DEF Copies
  <1> HIDE DEF S
  <1>9. /\ Grown(entry[t], S)
        /\ Len(stream'[entry[t]]) = Len(stream[entry[t]]) + Len(Copies("save", t, copied))
        /\ \A n \in 1 .. Len(Copies("save", t, copied)) :
             stream'[entry[t]][Len(stream[entry[t]]) + n] = Copies("save", t, copied)[n]
    BY <1>1, <1>2, <1>6, EnqueueGrows
  <1>10. OnlyCopiesAdded
    BY <1>2, <1>7, <1>9, CopiesAdded
  <1>11. copied # {} => \E m \in DOMAIN stream'[entry[t]] :
            stream'[entry[t]][m].kind = "save" /\ stream'[entry[t]][m].objs = copied
    <2> SUFFICES ASSUME copied # {}
                 PROVE  \E m \in DOMAIN stream'[entry[t]] :
                          stream'[entry[t]][m].kind = "save" /\ stream'[entry[t]][m].objs = copied
      OBVIOUS
    <2> DEFINE m == Len(stream[entry[t]]) + 1
    <2>1. stream'[entry[t]][m] = Item("save", t, copied) /\ Len(stream'[entry[t]]) = m
      <3> DEFINE x == Item("save", t, copied)
                 items == Copies("save", t, copied)
      <3>1. items = <<x>>
        BY <1>8
      <3>2. Len(<<x>>) = 1 /\ <<x>>[1] = x
        OBVIOUS
      <3>3. Len(items) = 1 /\ items[1] = x
        BY <3>1, <3>2
      <3>4. /\ Len(stream'[entry[t]]) = Len(stream[entry[t]]) + Len(items)
            /\ \A n \in 1 .. Len(items) : stream'[entry[t]][Len(stream[entry[t]]) + n] = items[n]
        BY <1>9
      <3> HIDE DEF x, items
      <3>5. 1 \in 1 .. Len(items)
        BY <3>3
      <3>6. stream'[entry[t]][m] = x
        BY <3>3, <3>4, <3>5
      <3>7. Len(stream'[entry[t]]) = m
        BY <3>3, <3>4
      <3> QED BY <3>6, <3>7 DEF x
    <2>2. m \in DOMAIN stream'[entry[t]]
      <3>1. stream'[entry[t]] \in Seq(ItemType) /\ stream[entry[t]] \in Seq(ItemType)
        BY <1>2 DEF Typed
      <3>2. m \in Nat \ {0} /\ DOMAIN stream'[entry[t]] = 1 .. Len(stream'[entry[t]])
        BY <3>1
      <3> HIDE DEF m
      <3> QED BY <2>1, <3>2
    <2> HIDE DEF m
    <2> QED BY <2>1, <2>2 DEF Item
  <1>12. \A u \in StoreTask : acc[u] \subseteq ObjectKey
    BY DEF Typed, StoreTask
  <1>13. \A e \in Entry : \A n \in DOMAIN stream[e] : Writes(stream[e][n]) \subseteq ObjectKey
    BY ItemsTyped DEF Typed, Writes
  <1>14. \A n \in DOMAIN callbacks : Writes(callbacks[n]) \subseteq ObjectKey
    BY CallbacksTyped
  <1>15. \A e \in Entry : \A n \in DOMAIN stream'[e] :
           Writes(stream'[e][n]) = {} \/ (n \in DOMAIN stream[e] /\ stream'[e][n] = stream[e][n])
    BY <1>10, SameWrites
  <1>16. \A u \in StoreTask : \A o \in acc'[u] : (u = t /\ o \in given) \/ o \in acc[u]
    BY <1>3, <1>4 DEF StoreTask
  <1>17. Locked'
    <2>1. \A u \in StoreTask : \A o \in acc'[u] : obj'[o] = "writing"
      BY <1>5, <1>12, <1>16 DEF Locked
    <2>2. \A e \in Entry : \A n \in DOMAIN stream'[e] : \A o \in Writes(stream'[e][n]) : obj'[o] = "writing"
      BY <1>5, <1>13, <1>15 DEF Locked
    <2>3. \A n \in DOMAIN callbacks' : \A o \in Writes(callbacks'[n]) : obj'[o] = "writing"
      BY <1>2, <1>5, <1>14 DEF Locked
    <2> QED BY <2>1, <2>2, <2>3 DEF Locked
  <1>18. Apart'
    <2>1. \A o \in given : /\ \A u \in StoreTask : o \notin acc[u]
                           /\ \A e \in Entry : \A n \in DOMAIN stream[e] : o \notin Writes(stream[e][n])
                           /\ \A n \in DOMAIN callbacks : o \notin Writes(callbacks[n])
      BY <1>5 DEF Locked
    <2>2. \A u, v \in StoreTask : u # v => acc'[u] \cap acc'[v] = {}
      BY <1>16, <2>1 DEF Apart
    <2>3. \A u \in StoreTask : \A e \in Entry : \A n \in DOMAIN stream'[e] :
            acc'[u] \cap Writes(stream'[e][n]) = {}
      BY <1>15, <1>16, <2>1 DEF Apart
    <2>4. \A u \in StoreTask : \A n \in DOMAIN callbacks' : acc'[u] \cap Writes(callbacks'[n]) = {}
      BY <1>2, <1>16, <2>1 DEF Apart
    <2>5. \A e, f \in Entry : \A n \in DOMAIN stream'[e] : \A m \in DOMAIN stream'[f] :
            e # f \/ n # m => Writes(stream'[e][n]) \cap Writes(stream'[f][m]) = {}
      <3> SUFFICES ASSUME NEW e \in Entry, NEW f \in Entry, NEW n \in DOMAIN stream'[e],
                          NEW m \in DOMAIN stream'[f], e # f \/ n # m,
                          Writes(stream'[e][n]) # {}, Writes(stream'[f][m]) # {}
                   PROVE  Writes(stream'[e][n]) \cap Writes(stream'[f][m]) = {}
        OBVIOUS
      <3>1. /\ n \in DOMAIN stream[e] /\ stream'[e][n] = stream[e][n]
            /\ m \in DOMAIN stream[f] /\ stream'[f][m] = stream[f][m]
        BY <1>15
      <3>2. Writes(stream[e][n]) \cap Writes(stream[f][m]) = {}
        BY <3>1 DEF Apart
      <3> QED BY <3>1, <3>2
    <2>6. \A e \in Entry : \A n \in DOMAIN stream'[e] : \A m \in DOMAIN callbacks' :
            Writes(stream'[e][n]) \cap Writes(callbacks'[m]) = {}
      BY <1>2, <1>15 DEF Apart
    <2>7. \A n, m \in DOMAIN callbacks' : n # m => Writes(callbacks'[n]) \cap Writes(callbacks'[m]) = {}
      BY <1>2 DEF Apart
    <2> QED BY <2>2, <2>3, <2>4, <2>5, <2>6, <2>7 DEF Apart
  <1>19. CopiesFirst'
    <2>1. PublishedIsCopied'
      BY <1>2, <1>5 DEF CopiesFirst, PublishedIsCopied
    <2>2. ASSUME NEW u \in StoreTask, Saving(u)', NEW o \in acc'[u]
          PROVE  o \in written' \/ \E m \in DOMAIN stream'[entry'[u]] : Copying(o, entry[u], m)'
      <3>1. CASE o \in acc[u]
        <4>1. Saving(u) /\ Running(u)
          BY <1>2, <1>3, <2>2 DEF Saving, Running, StoreTask
        <4>2. entry[u] \in Entry
          BY <4>1 DEF Handlers, StoreTask
        <4>3. o \in written \/ \E m \in DOMAIN stream[entry[u]] : Copying(o, entry[u], m)
          BY <3>1, <4>1 DEF CopiesFirst
        <4>4. o \in written' \/ \E m \in DOMAIN stream'[entry[u]] :
                stream'[entry[u]][m].kind = "save" /\ o \in stream'[entry[u]][m].objs
          BY <1>2, <1>10, <4>2, <4>3 DEF OnlyCopiesAdded, Copying
        <4> QED BY <1>2, <4>4 DEF Copying
      <3>2. CASE u = t /\ o \in given
        <4>1. StoreGroup(t)
          BY <1>2, <2>2, <3>2 DEF Saving
        <4>2. o \in copied
          BY <1>1, <3>2, <4>1
        <4> QED BY <1>2, <1>11, <3>2, <4>2 DEF Copying
      <3> QED BY <1>16, <2>2, <3>1, <3>2
    <2>3. ASSUME NEW e \in Entry, NEW n \in DOMAIN stream'[e], NEW o \in Writes(stream'[e][n])
          PROVE  CopiedBefore(o, e, n)'
      BY <1>2, <1>10, <1>15, <2>3, CopiesStay DEF CopiesFirst
    <2>4. \A n \in DOMAIN callbacks' : Writes(callbacks'[n]) \subseteq written'
      BY <1>2 DEF CopiesFirst
    <2> QED BY <2>1, <2>2, <2>3, <2>4 DEF CopiesFirst
  <1> QED BY <1>17, <1>18, <1>19

\* A store that went through hands its objects to the callback behind its
\* copies.
LEMMA PublishingContent ==
  ASSUME Control, Control', Content, NEW t \in Task, FinishStore(t), ok[t], acc[t] # {}
  PROVE  Content'
  <1> USE DEF Control, Content
  <1> DEFINE e == entry[t]
             s == stream[e]
             r == stream'[e]
             event == Item("event", t, {})
             write == Item("finishWrite", t, acc[t])
             items == <<event, write>>
             S == {event, write}
  <1>1. /\ UNCHANGED <<obj, written, callbacks, ok>> /\ Answer(t) /\ acc' = [acc EXCEPT ![t] = {}]
        /\ e \in Entry /\ acc[t] \subseteq ObjectKey /\ t \in StoreTask /\ hpc[t] = "finish"
        /\ Enqueue(e, items)
    BY DEF FinishStore, storageVars, Handlers, Running, Typed
  <1>2. event \in ItemType /\ write \in ItemType /\ S \in SUBSET ItemType /\ items \in Seq(S) /\ Len(items) = 2
        /\ items[1] = event /\ items[2] = write
    <2>1. event \in ItemType /\ write \in ItemType
      BY <1>1, CopiesTyped DEF ItemKind
    <2> HIDE DEF event, write
    <2> QED BY <2>1
  <1>3. Writes(event) = {} /\ Writes(write) = acc[t]
    BY DEF Writes, Item
  <1>4. s \in Seq(ItemType) /\ r \in Seq(ItemType)
    BY <1>1 DEF Typed
  <1> HIDE DEF event, write, items, S, s, r, e
  <1>5. /\ Grown(e, S) /\ Len(r) = Len(s) + 2
        /\ r[Len(s) + 1] = event /\ r[Len(s) + 2] = write
    <2>1. /\ Grown(e, S)
          /\ Len(stream'[e]) = Len(stream[e]) + Len(items)
          /\ \A n \in 1 .. Len(items) : stream'[e][Len(stream[e]) + n] = items[n]
      <3>1. Typed /\ e \in Entry /\ S \in SUBSET ItemType /\ items \in Seq(S) /\ Enqueue(e, items)
        BY <1>1, <1>2
      <3> QED BY <3>1, EnqueueGrows
    <2>2. 1 \in 1 .. Len(items) /\ 2 \in 1 .. Len(items)
      BY <1>2
    <2> QED BY <1>2, <2>1, <2>2 DEF r, s
  <1>6. /\ DOMAIN s = 1 .. Len(s) /\ DOMAIN r = 1 .. (Len(s) + 2) /\ Len(s) \in Nat
        /\ \A n \in DOMAIN s : r[n] = s[n]
    <2>1. DOMAIN s = 1 .. Len(s) /\ Len(s) \in Nat /\ DOMAIN r = 1 .. Len(r)
      BY <1>4
    <2>2. \A n \in 1 .. Len(s) : r[n] = s[n]
      BY <1>5 DEF Grown, r, s
    <2> QED BY <1>5, <2>1, <2>2
  <1>7. /\ \A f \in Entry \ {e} : stream'[f] = stream[f]
        /\ \A n \in DOMAIN r : (n \in DOMAIN s /\ r[n] = s[n]) \/ n = Len(s) + 1 \/ n = Len(s) + 2
        /\ \A n \in DOMAIN s : n < Len(s) + 2 /\ n \in DOMAIN r /\ r[n] = s[n]
    BY <1>5, <1>6 DEF Grown
  <1>8. ASSUME NEW f \in Entry, NEW n \in DOMAIN stream'[f]
        PROVE  \/ Writes(stream'[f][n]) = {}
               \/ n \in DOMAIN stream[f] /\ stream'[f][n] = stream[f][n]
               \/ f = e /\ n = Len(s) + 2 /\ Writes(stream'[f][n]) = acc[t]
    BY <1>3, <1>5, <1>7 DEF r, s
  <1>9. \A u \in StoreTask : acc'[u] = IF u = t THEN {} ELSE acc[u]
    BY <1>1 DEF Typed, StoreTask
  <1>10. Locked'
    <2>1. \A u \in StoreTask : \A o \in acc'[u] : obj'[o] = "writing"
      BY <1>1, <1>9 DEF Locked
    <2>2. ASSUME NEW f \in Entry, NEW n \in DOMAIN stream'[f], NEW o \in Writes(stream'[f][n])
          PROVE  obj'[o] = "writing"
      <3>1. CASE n \in DOMAIN stream[f] /\ stream'[f][n] = stream[f][n]
        BY <1>1, <2>2, <3>1 DEF Locked
      <3>2. CASE Writes(stream'[f][n]) = acc[t]
        BY <1>1, <2>2, <3>2 DEF Locked
      <3> QED BY <1>8, <2>2, <3>1, <3>2
    <2>3. \A n \in DOMAIN callbacks' : \A o \in Writes(callbacks'[n]) : obj'[o] = "writing"
      BY <1>1 DEF Locked
    <2> QED BY <2>1, <2>2, <2>3 DEF Locked
  <1>11. Apart'
    <2>1. \A u, v \in StoreTask : u # v => acc'[u] \cap acc'[v] = {}
      BY <1>9 DEF Apart
    <2>2. \A u \in StoreTask : \A f \in Entry : \A n \in DOMAIN stream'[f] :
            acc'[u] \cap Writes(stream'[f][n]) = {}
      <3> SUFFICES ASSUME NEW u \in StoreTask, NEW f \in Entry, NEW n \in DOMAIN stream'[f],
                          u # t, Writes(stream'[f][n]) # {}
                   PROVE  acc[u] \cap Writes(stream'[f][n]) = {}
        BY <1>9
      <3>1. CASE n \in DOMAIN stream[f] /\ stream'[f][n] = stream[f][n]
        <4>1. acc[u] \cap Writes(stream[f][n]) = {}
          BY <3>1 DEF Apart
        <4> QED BY <3>1, <4>1
      <3>2. CASE Writes(stream'[f][n]) = acc[t]
        <4>1. acc[u] \cap acc[t] = {}
          BY <1>1 DEF Apart
        <4> QED BY <3>2, <4>1
      <3> QED BY <1>8, <3>1, <3>2
    <2>3. \A u \in StoreTask : \A n \in DOMAIN callbacks' : acc'[u] \cap Writes(callbacks'[n]) = {}
      BY <1>1, <1>9 DEF Apart
    <2>4. \A f, g \in Entry : \A n \in DOMAIN stream'[f] : \A m \in DOMAIN stream'[g] :
            f # g \/ n # m => Writes(stream'[f][n]) \cap Writes(stream'[g][m]) = {}
      <3> SUFFICES ASSUME NEW f \in Entry, NEW g \in Entry, NEW n \in DOMAIN stream'[f],
                          NEW m \in DOMAIN stream'[g], f # g \/ n # m,
                          Writes(stream'[f][n]) # {}, Writes(stream'[g][m]) # {}
                   PROVE  Writes(stream'[f][n]) \cap Writes(stream'[g][m]) = {}
        OBVIOUS
      <3>1. CASE /\ n \in DOMAIN stream[f] /\ stream'[f][n] = stream[f][n]
                 /\ m \in DOMAIN stream[g] /\ stream'[g][m] = stream[g][m]
        <4>1. Writes(stream[f][n]) \cap Writes(stream[g][m]) = {}
          BY <3>1 DEF Apart
        <4> QED BY <3>1, <4>1
      <3>2. CASE /\ n \in DOMAIN stream[f] /\ stream'[f][n] = stream[f][n]
                 /\ Writes(stream'[g][m]) = acc[t]
        <4>1. acc[t] \cap Writes(stream[f][n]) = {}
          BY <1>1, <3>2 DEF Apart
        <4> QED BY <3>2, <4>1
      <3>3. CASE /\ m \in DOMAIN stream[g] /\ stream'[g][m] = stream[g][m]
                 /\ Writes(stream'[f][n]) = acc[t]
        <4>1. acc[t] \cap Writes(stream[g][m]) = {}
          BY <1>1, <3>3 DEF Apart
        <4> QED BY <3>3, <4>1
      <3> QED BY <1>8, <3>1, <3>2, <3>3
    <2>5. \A f \in Entry : \A n \in DOMAIN stream'[f] : \A m \in DOMAIN callbacks' :
            Writes(stream'[f][n]) \cap Writes(callbacks'[m]) = {}
      <3> SUFFICES ASSUME NEW f \in Entry, NEW n \in DOMAIN stream'[f], NEW m \in DOMAIN callbacks
                   PROVE  Writes(stream'[f][n]) \cap Writes(callbacks[m]) = {}
        BY <1>1
      <3>1. CASE n \in DOMAIN stream[f] /\ stream'[f][n] = stream[f][n]
        BY <3>1 DEF Apart
      <3>2. CASE Writes(stream'[f][n]) = acc[t]
        BY <1>1, <3>2 DEF Apart
      <3> QED BY <1>8, <3>1, <3>2
    <2>6. \A n, m \in DOMAIN callbacks' : n # m => Writes(callbacks'[n]) \cap Writes(callbacks'[m]) = {}
      BY <1>1 DEF Apart
    <2> QED BY <2>1, <2>2, <2>3, <2>4, <2>5, <2>6 DEF Apart
  <1>12. ASSUME NEW o, NEW f \in Entry, NEW m \in DOMAIN stream[f]
         PROVE  m \in DOMAIN stream'[f] /\ (Copying(o, f, m)' <=> Copying(o, f, m))
    BY <1>7 DEF Copying, r, s
  <1>13. CopiesFirst'
    <2>1. PublishedIsCopied'
      BY <1>1 DEF CopiesFirst, PublishedIsCopied
    <2>2. ASSUME NEW u \in StoreTask, Saving(u)', NEW o \in acc'[u]
          PROVE  o \in written' \/ \E m \in DOMAIN stream'[entry'[u]] : Copying(o, entry[u], m)'
      <3>1. u # t /\ o \in acc[u]
        BY <1>9, <2>2
      <3>2. entry'[u] = entry[u] /\ hpc'[u] = hpc[u] /\ ok'[u] = ok[u]
        BY <1>1, <3>1, AnswerFacts DEF StoreTask
      <3>3. Saving(u) /\ Running(u)
        BY <2>2, <3>2 DEF Saving, Running
      <3>4. entry[u] \in Entry
        BY <3>3 DEF Handlers, StoreTask
      <3>5. o \in written \/ \E m \in DOMAIN stream[entry[u]] : Copying(o, entry[u], m)
        BY <3>1, <3>3 DEF CopiesFirst
      <3>6. o \in written' \/ \E m \in DOMAIN stream'[entry[u]] :
              stream'[entry[u]][m].kind = "save" /\ o \in stream'[entry[u]][m].objs
        <4>1. \A m \in DOMAIN stream[entry[u]] :
                m \in DOMAIN stream'[entry[u]] /\ stream'[entry[u]][m] = stream[entry[u]][m]
          BY <1>7, <3>4 DEF r, s
        <4> QED BY <1>1, <3>5, <4>1 DEF Copying
      <3> QED BY <3>2, <3>6 DEF Copying
    <2>3. ASSUME NEW f \in Entry, NEW n \in DOMAIN stream'[f], NEW o \in Writes(stream'[f][n])
          PROVE  CopiedBefore(o, f, n)'
      <3>1. CASE n \in DOMAIN stream[f] /\ stream'[f][n] = stream[f][n]
        <4>1. CopiedBefore(o, f, n)
          BY <2>3, <3>1 DEF CopiesFirst
        <4> QED BY <1>1, <1>12, <4>1 DEF CopiedBefore
      <3>2. CASE f = e /\ n = Len(s) + 2 /\ Writes(stream'[f][n]) = acc[t]
        <4>1. o \in written \/ \E m \in DOMAIN stream[e] : Copying(o, e, m)
          BY <1>1, <2>3, <3>2 DEF CopiesFirst, Saving, e
        <4>2. \A m \in DOMAIN stream[e] : m < n
          BY <1>7, <3>2 DEF s
        <4> QED BY <1>1, <1>12, <3>2, <4>1, <4>2 DEF CopiedBefore
      <3> QED BY <1>8, <2>3, <3>1, <3>2
    <2>4. \A n \in DOMAIN callbacks' : Writes(callbacks'[n]) \subseteq written'
      BY <1>1 DEF CopiesFirst
    <2> QED BY <2>1, <2>2, <2>3, <2>4 DEF CopiesFirst
  <1> QED BY <1>10, <1>11, <1>13

\* What a step of the stream of e does: its first item is gone, was copied if
\* it was a copy, and is with the dispatcher if it was a callback.
LEMMA RunFacts ==
  ASSUME Control, NEW e \in Entry, RunStream(e)
  PROVE  /\ stream[e] # <<>> /\ stream' = [stream EXCEPT ![e] = Tail(@)]
         /\ UNCHANGED <<registryVars, obj, taskVars, handlerVars>>
         /\ written \subseteq written' /\ written' \subseteq ObjectKey
         /\ Head(stream[e]).kind = "save" => Head(stream[e]).objs \subseteq written'
         /\ \/ UNCHANGED callbacks /\ Writes(Head(stream[e])) = {}
            \/ callbacks' = Append(callbacks, Head(stream[e]))
  <1>1. Head(stream[e]).objs \subseteq ObjectKey \/ stream[e] = <<>>
    <2>1. stream[e] \in Seq(ItemType)
      BY DEF Control, Typed
    <2>2. stream[e] # <<>> => Head(stream[e]) \in ItemType
      BY <2>1
    <2> QED BY <2>2 DEF ItemType
  <1> QED BY <1>1 DEF RunStream, PassWait, RunSave, RunOn, RunCallback, Runs, Writes, storageVars,
                      Control, Typed

\* The stream goes on.
LEMMA RunControl ==
  ASSUME Control, NEW e \in Entry, RunStream(e)
  PROVE  Control'
  <1>1. RegistryTyped /\ StorageTyped /\ TasksTyped /\ DeviceTyped
    BY TypedParts DEF Control
  <1>2. RegistryTyped'
    BY <1>1, RunFacts, StillTyped
  <1>3. StorageTyped'
    BY <1>1, RunFacts DEF StorageTyped
  <1>4. TasksTyped' /\ Handlers'
    BY RunFacts, TasksLeftAlone DEF taskVars, handlerVars
  <1>5. DeviceTyped'
    <2>1. stream' \in [Entry -> Seq(ItemType)] /\ Head(stream[e]) \in ItemType
      BY RunFacts, ShorterStream DEF Control
    <2>2. callbacks' \in Seq(ItemType)
      <3>1. callbacks \in Seq(ItemType)
        BY <1>1 DEF DeviceTyped
      <3>2. Append(callbacks, Head(stream[e])) \in Seq(ItemType)
        BY <2>1, <3>1
      <3> QED BY <3>1, <3>2, RunFacts
    <2> QED BY <2>1, <2>2 DEF DeviceTyped
  <1> QED BY <1>2, <1>3, <1>4, <1>5, TypedParts DEF Control

\* Where item n of stream f was before the first item of stream e went.
Before(e, f, n) == IF f = e THEN n + 1 ELSE n

\* An item after such a step is an item of before.
LEMMA BeforeIsItem ==
  ASSUME Typed, NEW e \in Entry, stream[e] # <<>>, stream' = [stream EXCEPT ![e] = Tail(@)],
         NEW f \in Entry, NEW n \in DOMAIN stream'[f]
  PROVE  /\ Before(e, f, n) \in DOMAIN stream[f]
         /\ stream'[f][n] = stream[f][Before(e, f, n)]
         /\ f # e \/ Before(e, f, n) # 1
         /\ f = e => n \in Nat \ {0}
  <1>1. CASE f # e
    <2>1. stream'[f] = stream[f]
      BY <1>1, ShorterStream
    <2> QED BY <1>1, <2>1 DEF Before
  <1>2. CASE f = e
    <2>1. n \in Nat \ {0} /\ n + 1 \in DOMAIN stream[e] /\ stream'[e][n] = stream[e][n + 1]
      BY <1>2, ShorterStream
    <2>2. n + 1 # 1
      BY <2>1
    <2> QED BY <1>2, <2>1, <2>2 DEF Before
  <1> QED BY <1>1, <1>2

\* Two items after it are two items of before.
LEMMA BeforeIsOther ==
  ASSUME Typed, NEW e \in Entry, stream[e] # <<>>, stream' = [stream EXCEPT ![e] = Tail(@)],
         NEW f \in Entry, NEW n \in DOMAIN stream'[f], NEW m \in DOMAIN stream'[f], n # m
  PROVE  Before(e, f, n) # Before(e, f, m)
  <1>1. CASE f = e
    <2>1. n \in Nat /\ m \in Nat
      BY <1>1, BeforeIsItem
    <2>2. n + 1 # m + 1
      BY <2>1
    <2> QED BY <1>1, <2>2 DEF Before
  <1>2. CASE f # e
    BY <1>2 DEF Before
  <1> QED BY <1>1, <1>2

\* So it is with a step of the stream; and what was in front of an item still
\* is, but for the item that is gone.
LEMMA RunLeaves ==
  ASSUME Control, NEW e \in Entry, RunStream(e), NEW f \in Entry, NEW n \in DOMAIN stream'[f]
  PROVE  /\ Before(e, f, n) \in DOMAIN stream[f]
         /\ stream'[f][n] = stream[f][Before(e, f, n)]
         /\ f # e \/ Before(e, f, n) # 1
         /\ \A m \in DOMAIN stream[f] :
              m < Before(e, f, n) /\ ~(f = e /\ m = 1)
                => \E p \in DOMAIN stream'[f] : p < n /\ stream'[f][p] = stream[f][m]
  <1>1. Typed /\ stream[e] # <<>> /\ stream' = [stream EXCEPT ![e] = Tail(@)]
    BY RunFacts DEF Control
  <1>2. /\ Before(e, f, n) \in DOMAIN stream[f]
        /\ stream'[f][n] = stream[f][Before(e, f, n)]
        /\ f # e \/ Before(e, f, n) # 1
    <2>1. CASE f # e
      <3>1. stream'[f] = stream[f]
        BY <1>1, <2>1, ShorterStream
      <3> QED BY <2>1, <3>1 DEF Before
    <2>2. CASE f = e
      <3>1. n \in Nat \ {0} /\ n + 1 \in DOMAIN stream[e] /\ stream'[e][n] = stream[e][n + 1]
        BY <1>1, <2>2, ShorterStream
      <3>2. n + 1 # 1
        BY <3>1
      <3>3. Before(e, f, n) = n + 1
        BY <2>2 DEF Before
      <3> QED BY <2>2, <3>1, <3>2, <3>3
    <2> QED BY <2>1, <2>2
  <1>5. ASSUME NEW m \in DOMAIN stream[f], m < Before(e, f, n), ~(f = e /\ m = 1)
        PROVE  \E p \in DOMAIN stream'[f] : p < n /\ stream'[f][p] = stream[f][m]
    <2>1. CASE f # e
      <3>1. stream'[f] = stream[f] /\ m < n
        BY <1>1, <1>5, <2>1, ShorterStream DEF Before
      <3> QED BY <3>1
    <2>2. CASE f = e
      <3>1. m < n + 1 /\ m # 1 /\ m \in DOMAIN stream[e] /\ n \in DOMAIN stream'[e]
        BY <1>5, <2>2 DEF Before
      <3>2. n \in Nat \ {0} /\ m \in Nat \ {0}
        BY <1>1, <3>1, ShorterStream
      <3>3. m > 1
        BY <3>1, <3>2
      <3>4. m - 1 \in DOMAIN stream'[e] /\ stream'[e][m - 1] = stream[e][m]
        BY <1>1, <3>1, <3>3, ShorterStream
      <3>5. m - 1 < n
        BY <3>1, <3>2
      <3> QED BY <2>2, <3>4, <3>5
    <2> QED BY <2>1, <2>2
  <1> QED BY <1>2, <1>5

\* A copy that runs is done, and a callback leaves the stream behind its
\* copies: the write locks stay where the handlers put them.
LEMMA RunContent ==
  ASSUME Control, Control', Content, NEW e \in Entry, RunStream(e)
  PROVE  Content'
  <1> USE DEF Control, Content
  <1> DEFINE h == Head(stream[e])
  <1>1. /\ stream[e] # <<>> /\ stream' = [stream EXCEPT ![e] = Tail(@)]
        /\ UNCHANGED <<obj, hpc, entry, acc, ok>>
        /\ written \subseteq written'
        /\ h.kind = "save" => h.objs \subseteq written'
        /\ h = stream[e][1] /\ 1 \in DOMAIN stream[e]
    BY RunFacts, ShorterStream DEF handlerVars
  <1>2. ASSUME NEW n \in DOMAIN callbacks'
        PROVE  \/ n \in DOMAIN callbacks /\ callbacks'[n] = callbacks[n]
               \/ n \notin DOMAIN callbacks /\ n = Len(callbacks) + 1 /\ callbacks'[n] = h
    <2>1. callbacks \in Seq(ItemType) /\ h \in ItemType
      BY <1>1, ShorterStream DEF Typed
    <2> HIDE DEF h
    <2>2. callbacks' = callbacks \/ callbacks' = Append(callbacks, h)
      BY RunFacts DEF h
    <2>3. CASE callbacks' = Append(callbacks, h)
      BY <1>2, <2>1, <2>3
    <2> QED BY <1>2, <2>2, <2>3
  <1> HIDE DEF h
  <1>3. ASSUME NEW f \in Entry, NEW n \in DOMAIN stream'[f]
        PROVE  /\ Before(e, f, n) \in DOMAIN stream[f] /\ stream'[f][n] = stream[f][Before(e, f, n)]
               /\ f # e \/ Before(e, f, n) # 1
    BY RunLeaves
  <1>4. Locked'
    <2>1. \A u \in StoreTask : \A o \in acc'[u] : obj'[o] = "writing"
      BY <1>1 DEF Locked
    <2>2. \A f \in Entry : \A n \in DOMAIN stream'[f] : \A o \in Writes(stream'[f][n]) : obj'[o] = "writing"
      BY <1>1, <1>3 DEF Locked
    <2>3. \A n \in DOMAIN callbacks' : \A o \in Writes(callbacks'[n]) : obj'[o] = "writing"
      BY <1>1, <1>2 DEF Locked
    <2> QED BY <2>1, <2>2, <2>3 DEF Locked
  <1>5. Apart'
    <2>1. \A u, v \in StoreTask : u # v => acc'[u] \cap acc'[v] = {}
      BY <1>1 DEF Apart
    <2>2. \A u \in StoreTask : \A f \in Entry : \A n \in DOMAIN stream'[f] :
            acc'[u] \cap Writes(stream'[f][n]) = {}
      BY <1>1, <1>3 DEF Apart
    <2>3. \A u \in StoreTask : \A n \in DOMAIN callbacks' : acc'[u] \cap Writes(callbacks'[n]) = {}
      BY <1>1, <1>2 DEF Apart
    <2>4. ASSUME NEW f \in Entry, NEW g \in Entry, NEW n \in DOMAIN stream'[f], NEW m \in DOMAIN stream'[g],
                 f # g \/ n # m
          PROVE  Writes(stream'[f][n]) \cap Writes(stream'[g][m]) = {}
      <3>1. f # g \/ Before(e, f, n) # Before(e, g, m)
        BY <1>1, <2>4, BeforeIsOther
      <3>2. Writes(stream[f][Before(e, f, n)]) \cap Writes(stream[g][Before(e, g, m)]) = {}
        BY <1>3, <3>1 DEF Apart
      <3> QED BY <1>3, <3>2
    <2>5. ASSUME NEW f \in Entry, NEW n \in DOMAIN stream'[f], NEW m \in DOMAIN callbacks'
          PROVE  Writes(stream'[f][n]) \cap Writes(callbacks'[m]) = {}
      <3> DEFINE b == Before(e, f, n)
      <3>1. b \in DOMAIN stream[f] /\ stream'[f][n] = stream[f][b] /\ (f # e \/ b # 1)
        BY <1>3
      <3> HIDE DEF b
      <3>2. Writes(stream[f][b]) \cap Writes(stream[e][1]) = {}
        BY <1>1, <3>1 DEF Apart
      <3>3. m \in DOMAIN callbacks => Writes(stream[f][b]) \cap Writes(callbacks[m]) = {}
        BY <3>1 DEF Apart
      <3> QED BY <1>1, <1>2, <3>1, <3>2, <3>3
    <2>6. ASSUME NEW n \in DOMAIN callbacks', NEW m \in DOMAIN callbacks', n # m
          PROVE  Writes(callbacks'[n]) \cap Writes(callbacks'[m]) = {}
      <3>1. \A p \in DOMAIN callbacks : Writes(callbacks[p]) \cap Writes(h) = {}
        BY <1>1 DEF Apart
      <3>2. n \in DOMAIN callbacks /\ m \in DOMAIN callbacks
              => Writes(callbacks[n]) \cap Writes(callbacks[m]) = {}
        BY <2>6 DEF Apart
      <3> QED BY <1>2, <2>6, <3>1, <3>2
    <2> QED BY <2>1, <2>2, <2>3, <2>4, <2>5, <2>6 DEF Apart
  <1>6. CopiesFirst'
    <2>1. PublishedIsCopied'
      BY <1>1 DEF CopiesFirst, PublishedIsCopied
    <2>2. ASSUME NEW u \in StoreTask, Saving(u)', NEW o \in acc'[u]
          PROVE  o \in written' \/ \E m \in DOMAIN stream'[entry'[u]] : Copying(o, entry[u], m)'
      <3>1. o \in acc[u] /\ Saving(u) /\ Running(u) /\ entry'[u] = entry[u]
        BY <1>1, <2>2 DEF Saving, Running
      <3>2. entry[u] \in Entry
        BY <3>1 DEF Handlers, StoreTask
      <3>3. CASE o \in written
        BY <1>1, <3>3
      <3>4. ASSUME NEW m \in DOMAIN stream[entry[u]], Copying(o, entry[u], m)
            PROVE  o \in written' \/ \E p \in DOMAIN stream'[entry[u]] : stream'[entry[u]][p] = stream[entry[u]][m]
        <4>1. CASE entry[u] = e /\ m = 1
          BY <1>1, <3>4, <4>1 DEF Copying
        <4>2. CASE entry[u] # e
          BY <1>1, <3>2, <4>2, ShorterStream
        <4>3. CASE entry[u] = e /\ m # 1
          <5>0. m \in DOMAIN stream[e] /\ m # 1
            BY <4>3
          <5>1. m \in Nat \ {0} /\ m > 1
            <6>1. m \in Nat \ {0}
              BY <1>1, <5>0, ShorterStream
            <6> QED BY <5>0, <6>1
          <5>2. m - 1 \in DOMAIN stream'[e] /\ stream'[e][m - 1] = stream[e][m]
            BY <1>1, <5>0, <5>1, ShorterStream
          <5> QED BY <4>3, <5>2
        <4> QED BY <4>1, <4>2, <4>3
      <3>5. o \in written \/ \E m \in DOMAIN stream[entry[u]] : Copying(o, entry[u], m)
        BY <3>1 DEF CopiesFirst
      <3> QED BY <3>1, <3>3, <3>4, <3>5 DEF Copying
    <2>3. ASSUME NEW f \in Entry, NEW n \in DOMAIN stream'[f], NEW o \in Writes(stream'[f][n])
          PROVE  CopiedBefore(o, f, n)'
      <3> DEFINE b == Before(e, f, n)
      <3>1. b \in DOMAIN stream[f] /\ stream'[f][n] = stream[f][b]
        BY <1>3
      <3>2. ASSUME NEW m \in DOMAIN stream[f], m < b, ~(f = e /\ m = 1)
            PROVE  \E p \in DOMAIN stream'[f] : p < n /\ stream'[f][p] = stream[f][m]
        BY <3>2, RunLeaves
      <3> HIDE DEF b
      <3>3. CopiedBefore(o, f, b)
        BY <2>3, <3>1 DEF CopiesFirst
      <3>4. ASSUME NEW m \in DOMAIN stream[f], m < b, Copying(o, f, m)
            PROVE  CopiedBefore(o, f, n)'
        <4>1. CASE f = e /\ m = 1
          BY <1>1, <3>4, <4>1 DEF Copying, CopiedBefore
        <4>2. CASE \E p \in DOMAIN stream'[f] : p < n /\ stream'[f][p] = stream[f][m]
          BY <3>4, <4>2 DEF Copying, CopiedBefore
        <4> QED BY <3>2, <3>4, <4>1, <4>2
      <3>5. o \in written => CopiedBefore(o, f, n)'
        BY <1>1 DEF CopiedBefore
      <3> QED BY <3>3, <3>4, <3>5 DEF CopiedBefore
    <2>4. ASSUME NEW n \in DOMAIN callbacks' PROVE Writes(callbacks'[n]) \subseteq written'
      <3>1. CASE n \in DOMAIN callbacks /\ callbacks'[n] = callbacks[n]
        BY <1>1, <3>1 DEF CopiesFirst
      <3>2. CASE callbacks'[n] = h
        <4>1. \A m \in DOMAIN stream[e] : ~(m < 1)
          <5>1. \A m \in DOMAIN stream[e] : m \in Nat \ {0}
            BY <1>1, ShorterStream
          <5> QED BY <5>1
        <4>2. Writes(h) \subseteq written
          BY <1>1, <4>1 DEF CopiesFirst, CopiedBefore
        <4> QED BY <1>1, <3>2, <4>2
      <3> QED BY <1>2, <3>1, <3>2
    <2> QED BY <2>1, <2>2, <2>3, <2>4 DEF CopiesFirst
  <1> QED BY <1>4, <1>5, <1>6

\* The first callback is gone from the dispatcher, and the objects it finishes
\* can be read.
LEMMA DispatchFacts ==
  ASSUME Control, Dispatch
  PROVE  /\ 1 \in DOMAIN callbacks /\ Writes(callbacks[1]) \subseteq ObjectKey
         /\ UNCHANGED <<registryVars, written, taskVars, handlerVars, stream>>
         /\ callbacks' \in Seq(ItemType)
         /\ \A n \in DOMAIN callbacks' :
              n \in Nat /\ n + 1 \in DOMAIN callbacks /\ n + 1 # 1 /\ callbacks'[n] = callbacks[n + 1]
         /\ obj' \in [ObjectKey -> {"absent", "writing", "readable"}]
         /\ \A o \in ObjectKey : obj'[o] = IF o \in Writes(callbacks[1]) THEN "readable" ELSE obj[o]
  <1>1. /\ callbacks \in Seq(ItemType) /\ callbacks # <<>> /\ callbacks' = Tail(callbacks)
        /\ obj \in [ObjectKey -> {"absent", "writing", "readable"}]
    BY DEF Dispatch, Control, Typed
  <1>2. /\ Tail(callbacks) \in Seq(ItemType) /\ Head(callbacks) = callbacks[1]
        /\ Len(callbacks) \in Nat \ {0} /\ Len(Tail(callbacks)) = Len(callbacks) - 1
        /\ \A n \in 1 .. (Len(callbacks) - 1) : Tail(callbacks)[n] = callbacks[n + 1]
    BY <1>1, Shorten
  <1>3. DOMAIN callbacks = 1 .. Len(callbacks) /\ DOMAIN callbacks' = 1 .. (Len(callbacks) - 1)
    BY <1>1, <1>2
  <1>4. 1 \in DOMAIN callbacks
    BY <1>2, <1>3
  <1>5. Writes(callbacks[1]) \subseteq ObjectKey
    BY <1>4, CallbacksTyped DEF Control
  <1>6. ASSUME NEW n \in DOMAIN callbacks'
        PROVE  n \in Nat /\ n + 1 \in DOMAIN callbacks /\ n + 1 # 1 /\ callbacks'[n] = callbacks[n + 1]
    <2>1. n \in 1 .. (Len(callbacks) - 1)
      BY <1>3
    <2>2. callbacks'[n] = callbacks[n + 1]
      BY <1>1, <1>2, <2>1
    <2>3. n \in Nat /\ n + 1 \in 1 .. Len(callbacks) /\ n + 1 # 1
      BY <1>2, <2>1
    <2> QED BY <1>3, <2>2, <2>3
  <1>7. obj' = [o \in ObjectKey |-> IF o \in Writes(callbacks[1]) THEN "readable" ELSE obj[o]]
    <2>1. CASE Head(callbacks).kind = "finishWrite"
      <3>1. obj' = [o \in ObjectKey |-> IF o \in Head(callbacks).objs THEN "readable" ELSE obj[o]]
        BY <2>1 DEF Dispatch, FinishWrite
      <3>2. Writes(callbacks[1]) = Head(callbacks).objs
        BY <1>2, <2>1 DEF Writes
      <3> QED BY <3>1, <3>2
    <2>2. CASE Head(callbacks).kind # "finishWrite"
      <3>1. obj' = obj /\ Writes(callbacks[1]) = {}
        BY <1>2, <2>2 DEF Dispatch, Writes
      <3> QED BY <1>1, <3>1
    <2> QED BY <2>1, <2>2
  <1>8. UNCHANGED <<registryVars, written, taskVars, handlerVars, stream>>
    BY DEF Dispatch
  <1>9. obj' \in [ObjectKey -> {"absent", "writing", "readable"}]
    BY <1>1, <1>7
  <1>10. \A o \in ObjectKey : obj'[o] = IF o \in Writes(callbacks[1]) THEN "readable" ELSE obj[o]
    BY <1>7
  <1> QED BY <1>1, <1>2, <1>4, <1>5, <1>6, <1>8, <1>9, <1>10

\* The dispatcher goes on.
LEMMA DispatchControl ==
  ASSUME Control, Dispatch
  PROVE  Control'
  <1>1. RegistryTyped /\ StorageTyped /\ TasksTyped /\ DeviceTyped
    BY TypedParts DEF Control
  <1>2. RegistryTyped'
    BY <1>1, DispatchFacts, StillTyped
  <1>3. StorageTyped'
    BY <1>1, DispatchFacts DEF StorageTyped
  <1>4. TasksTyped' /\ Handlers'
    BY DispatchFacts, TasksLeftAlone DEF taskVars, handlerVars
  <1>5. DeviceTyped'
    BY <1>1, DispatchFacts DEF DeviceTyped
  <1> QED BY <1>2, <1>3, <1>4, <1>5, TypedParts DEF Control

\* What a callback publishes has been copied, and nobody else has its write
\* locks.
LEMMA DispatchContent ==
  ASSUME Control, Control', Content, Dispatch
  PROVE  Content'
  <1> USE DEF Control, Content
  <1> DEFINE w == Writes(callbacks[1])
  <1>1. /\ 1 \in DOMAIN callbacks
        /\ UNCHANGED <<written, hpc, entry, acc, ok, stream>>
        /\ w \subseteq ObjectKey
        /\ \A o \in ObjectKey : obj'[o] = IF o \in w THEN "readable" ELSE obj[o]
    BY DispatchFacts DEF handlerVars
  <1>2. \A n \in DOMAIN callbacks' :
          n \in Nat /\ n + 1 \in DOMAIN callbacks /\ n + 1 # 1 /\ callbacks'[n] = callbacks[n + 1]
    BY DispatchFacts
  <1>3. \A o \in ObjectKey : obj[o] = "writing" /\ o \notin w => obj'[o] = "writing"
    BY <1>1
  <1>4. Locked'
    <2>1. ASSUME NEW u \in StoreTask, NEW o \in acc'[u] PROVE obj'[o] = "writing"
      <3>1. o \in acc[u] /\ o \notin w /\ obj[o] = "writing"
        BY <1>1, <2>1 DEF Apart, Locked
      <3>2. o \in ObjectKey
        BY <3>1 DEF Typed, StoreTask
      <3> QED BY <1>3, <3>1, <3>2
    <2>2. ASSUME NEW f \in Entry, NEW n \in DOMAIN stream'[f], NEW o \in Writes(stream'[f][n])
          PROVE  obj'[o] = "writing"
      <3>1. n \in DOMAIN stream[f] /\ o \in Writes(stream[f][n])
        BY <1>1, <2>2
      <3>2. o \notin w /\ obj[o] = "writing"
        BY <1>1, <3>1 DEF Apart, Locked
      <3>3. o \in ObjectKey
        <4>1. stream[f][n].objs \subseteq ObjectKey
          BY <3>1, ItemsTyped DEF Typed
        <4> QED BY <3>1, <4>1 DEF Writes
      <3> QED BY <1>3, <3>2, <3>3
    <2>3. ASSUME NEW n \in DOMAIN callbacks', NEW o \in Writes(callbacks'[n])
          PROVE  obj'[o] = "writing"
      <3> DEFINE m == n + 1
      <3>1. m \in DOMAIN callbacks /\ m # 1 /\ o \in Writes(callbacks[m])
        BY <1>2, <2>3
      <3> HIDE DEF m
      <3>2. o \notin w /\ obj[o] = "writing" /\ o \in ObjectKey
        BY <1>1, <3>1, CallbacksTyped DEF Apart, Locked
      <3> QED BY <1>3, <3>2
    <2> QED BY <2>1, <2>2, <2>3 DEF Locked
  <1>5. Apart'
    <2>1. \A u \in StoreTask : \A n \in DOMAIN callbacks' : acc'[u] \cap Writes(callbacks'[n]) = {}
      BY <1>1, <1>2 DEF Apart
    <2>2. \A f \in Entry : \A n \in DOMAIN stream'[f] : \A m \in DOMAIN callbacks' :
            Writes(stream'[f][n]) \cap Writes(callbacks'[m]) = {}
      BY <1>1, <1>2 DEF Apart
    <2>3. ASSUME NEW n \in DOMAIN callbacks', NEW m \in DOMAIN callbacks', n # m
          PROVE  Writes(callbacks'[n]) \cap Writes(callbacks'[m]) = {}
      <3> DEFINE a == n + 1
                 b == m + 1
      <3>1. /\ a \in DOMAIN callbacks /\ callbacks'[n] = callbacks[a]
            /\ b \in DOMAIN callbacks /\ callbacks'[m] = callbacks[b]
            /\ n \in Nat /\ m \in Nat
        BY <1>2
      <3>2. a # b
        BY <2>3, <3>1
      <3> HIDE DEF a, b
      <3> QED BY <3>1, <3>2 DEF Apart
    <2>4. \A u, v \in StoreTask : u # v => acc'[u] \cap acc'[v] = {}
      BY <1>1 DEF Apart
    <2>5. \A u \in StoreTask : \A f \in Entry : \A n \in DOMAIN stream'[f] :
            acc'[u] \cap Writes(stream'[f][n]) = {}
      BY <1>1 DEF Apart
    <2>6. \A f, g \in Entry : \A n \in DOMAIN stream'[f] : \A m \in DOMAIN stream'[g] :
            f # g \/ n # m => Writes(stream'[f][n]) \cap Writes(stream'[g][m]) = {}
      BY <1>1 DEF Apart
    <2> QED BY <2>1, <2>2, <2>3, <2>4, <2>5, <2>6 DEF Apart
  <1>6. CopiesFirst'
    <2>1. PublishedIsCopied'
      BY <1>1 DEF CopiesFirst, PublishedIsCopied
    <2>2. \A n \in DOMAIN callbacks' : Writes(callbacks'[n]) \subseteq written'
      BY <1>1, <1>2 DEF CopiesFirst
    <2>3. \A u \in StoreTask : Saving(u)' =>
            \A o \in acc'[u] : o \in written' \/ \E m \in DOMAIN stream'[entry'[u]] : Copying(o, entry[u], m)'
      BY <1>1 DEF CopiesFirst, Saving, Copying
    <2>4. \A f \in Entry : \A n \in DOMAIN stream'[f] :
            \A o \in Writes(stream'[f][n]) : CopiedBefore(o, f, n)'
      BY <1>1 DEF CopiesFirst, CopiedBefore, Copying
    <2> QED BY <1>1, <2>1, <2>2, <2>3, <2>4 DEF CopiesFirst, Copying
  <1> QED BY <1>4, <1>5, <1>6

-----------------------------------------------------------------------------
(* Registrations and the storage.                                          *)

\* A step of the registry, or of the storage on its own.
RegistryStep ==
    \/ \E i \in Instance : Lifecycle(i)
    \/ \E e \in Entry : \E r \in Releaser : ReleaseEntry(r, e)
    \/ \E stale \in SUBSET Instance : ReapStale(stale)
    \/ \E o \in ObjectKey : Evict(o)

\* Such a step touches no request, no stream and no callback.
LEMMA RegistryFacts ==
  ASSUME RegistryStep
  PROVE  /\ UNCHANGED <<taskVars, handlerVars, stream, callbacks>>
         /\ UNCHANGED <<obj, written>> \/ \E o \in ObjectKey : Unlocked(o) /\ Drop({o})
  BY DEF RegistryStep, Lifecycle, RegisterLayout, InsertEntry, Unregister, ReapStale, ReleaseEntry,
         Evict, aside, storageVars, deviceVars

\* Entries are numbered from 1 and none is beyond the bound.
LEMMA RegistryTypedAfter ==
  ASSUME Control, RegistryStep
  PROVE  RegistryTyped'
  <1>1. RegistryTyped
    BY TypedParts DEF Control
  <1>2. ASSUME NEW i \in Instance, RegisterLayout(i) PROVE RegistryTyped'
    <2>1. registrations + 1 \in 0..MaxRegistrations /\ registrations + 1 \in Entry
      BY <1>1, <1>2, ConstantsAssumption DEF RegistryTyped, RegisterLayout, Entry
    <2> QED BY <1>1, <1>2, <2>1 DEF RegistryTyped, RegisterLayout
  <1>3. ASSUME NEW i \in Instance, InsertEntry(i) PROVE RegistryTyped'
    <2>1. laidOut # {} /\ registrations \in Entry
      BY <1>1, <1>3 DEF RegistryTyped, InsertEntry
    <2> QED BY <1>1, <1>3, <2>1 DEF RegistryTyped, InsertEntry
  <1>4. ASSUME NEW instances, Pop(instances), UNCHANGED <<laidOut, registrations>> PROVE RegistryTyped'
    BY <1>1, <1>4 DEF RegistryTyped, Pop
  <1>5. ASSUME UNCHANGED <<contexts, laidOut, registrations>> PROVE RegistryTyped'
    BY <1>1, <1>5 DEF RegistryTyped
  <1> QED BY <1>2, <1>3, <1>4, <1>5
          DEF RegistryStep, Lifecycle, Unregister, ReapStale, ReleaseEntry, Evict, registryVars

\* Registrations come and go, and the storage drops objects.
LEMMA RegistryControl ==
  ASSUME Control, RegistryStep
  PROVE  Control'
  <1>1. RegistryTyped /\ StorageTyped /\ TasksTyped /\ DeviceTyped
    BY TypedParts DEF Control
  <1>2. RegistryTyped'
    BY RegistryTypedAfter
  <1>3. StorageTyped'
    <2>1. CASE UNCHANGED <<obj, written>>
      BY <1>1, <2>1, StillTyped
    <2>2. ASSUME NEW o \in ObjectKey, Drop({o}) PROVE StorageTyped'
      BY <1>1, <2>2 DEF StorageTyped, Drop
    <2> QED BY <2>1, <2>2, RegistryFacts
  <1>4. TasksTyped' /\ Handlers'
    BY RegistryFacts, TasksLeftAlone DEF taskVars, handlerVars
  <1>5. DeviceTyped'
    BY <1>1, RegistryFacts, StillTyped
  <1> QED BY <1>2, <1>3, <1>4, <1>5, TypedParts DEF Control

-----------------------------------------------------------------------------
(* The invariant.                                                          *)

\* The parts of the invariant.
LEMMA InvariantParts ==
  /\ IInv <=> Control /\ Content /\ EventsBehind
  /\ IInv' <=> Control' /\ Content' /\ EventsBehind'
  BY DEF IInv, Control, Content

\* It holds at the beginning.
LEMMA InitIInv == Init => IInv
  <1> SUFFICES ASSUME Init PROVE IInv
    OBVIOUS
  <1> DEFINE k0 == CHOOSE k \in Key : TRUE
  <1>1. k0 \in Key /\ 1 \in Group /\ 0 \in 0..MaxRegistrations
    BY ConstantsAssumption DEF Group
  <1> HIDE DEF k0
  <1>2. stream = [e \in Entry |-> <<>>] /\ callbacks = <<>> /\ acc = [t \in Task |-> {}]
    BY DEF Init
  <1>3. \A e \in Entry : DOMAIN stream[e] = {}
    BY <1>2
  <1>4. DOMAIN callbacks = {} /\ \A t \in StoreTask : acc[t] = {}
    BY <1>2 DEF StoreTask
  <1>5. Typed
    <2>1. stream \in [Entry -> Seq(ItemType)] /\ callbacks \in Seq(ItemType)
      BY <1>2
    <2>2. key \in [Task -> Key]
      <3>1. key = [t \in Task |-> k0]
        BY DEF Init, k0
      <3> QED BY <1>1, <3>1
    <2>3. /\ contexts \in [Instance -> Entry \cup {NoEntry}] /\ entry \in [Task -> Entry \cup {NoEntry}]
          /\ registrations \in 0..MaxRegistrations
          /\ laidOut # {} => registrations \in Entry
      BY <1>1 DEF Init
    <2>4. /\ obj \in [ObjectKey -> {"absent", "writing", "readable"}] /\ written \subseteq ObjectKey
          /\ wpc \in [Task -> {"idle", "sent", "answered"}]
          /\ hpc \in [Task -> HandlerPC] /\ grp \in [Task -> Group]
          /\ acc \in [Task -> SUBSET ObjectKey] /\ ok \in [Task -> BOOLEAN]
      BY <1>1 DEF Init, HandlerPC
    <2> QED BY <2>1, <2>2, <2>3, <2>4 DEF Typed
  <1>6. Handlers
    BY DEF Init, Handlers, Running
  <1>7. Locked
    BY <1>3, <1>4 DEF Locked
  <1>8. Apart
    BY <1>3, <1>4 DEF Apart
  <1>9. CopiesFirst
    BY <1>3, <1>4 DEF CopiesFirst, PublishedIsCopied, Init
  <1>10. EventsBehind
    BY <1>3 DEF EventsBehind, EventPending
  <1> QED BY <1>5, <1>6, <1>7, <1>8, <1>9, <1>10 DEF IInv

\* Every step keeps it.
LEMMA NextIInv == IInv /\ [Next]_vars => IInv'
  <1> SUFFICES ASSUME IInv, [Next]_vars PROVE IInv'
    OBVIOUS
  <1>0. Control /\ Content /\ EventsBehind
    BY InvariantParts
  <1>1. ASSUME NEW t \in Task, Worker(t) PROVE IInv'
    <2>1. Control'
      BY <1>0, <1>1, RequestControl
    <2> QED BY <1>0, <1>1, <2>1, RequestContent, WorkerEvents, InvariantParts
  <1>2. ASSUME NEW t \in Task, Resolve(t) PROVE IInv'
    <2>1. Control'
      BY <1>0, <1>2, ResolveControl
    <2> QED BY <1>0, <1>2, <2>1, RequestContent, ResolveEvents, InvariantParts
  <1>3. ASSUME NEW t \in Task, Handle(t) PROVE IInv'
    <2>1. Control'
      BY <1>0, <1>3, HandleControl
    <2>2. Content'
      <3>1. CASE StoreGroup(t) \/ StoreRaises(t)
        BY <1>0, <2>1, <3>1, ReservingContent
      <3>2. CASE ReadMisses(t) \/ LoadGroup(t) \/ LoadRaises(t)
        BY <1>0, <2>1, <3>2, LoadingContent
      <3>3. CASE FinishRetrieve(t)
        BY <1>0, <2>1, <3>3, EmptyHandedContent
      <3>4. CASE FinishStore(t)
        BY <1>0, <2>1, <3>4, EmptyHandedContent, PublishingContent
      <3> QED BY <1>3, <3>1, <3>2, <3>3, <3>4 DEF Handle
    <2> QED BY <1>0, <1>3, <2>1, <2>2, HandleEvents, InvariantParts
  <1>4. CASE RegistryStep
    <2>1. Control'
      BY <1>0, <1>4, RegistryControl
    <2>2. UNCHANGED <<taskVars, handlerVars, stream, callbacks>>
      BY <1>4, RegistryFacts
    <2>3. Content'
      BY <1>0, <1>4, <2>1, <2>2, RegistryFacts, AsideContent
    <2>4. EventsBehind'
      <3>1. \A u \in Task : Running(u)' <=> Running(u)
        BY <2>2 DEF Running, handlerVars
      <3>2. UNCHANGED <<wpc, entry, stream>>
        BY <2>2 DEF taskVars, handlerVars
      <3> QED BY <1>0, <2>1, <3>1, <3>2, EventsLeftAlone
    <2> QED BY <2>1, <2>3, <2>4, InvariantParts
  <1>5. ASSUME NEW e \in Entry, RunStream(e) PROVE IInv'
    <2>1. Control'
      BY <1>0, <1>5, RunControl
    <2>2. EventsBehind'
      <3>1. /\ stream[e] # <<>> /\ stream' = [stream EXCEPT ![e] = Tail(@)]
            /\ UNCHANGED <<wpc, hpc, entry>>
        BY <1>0, <1>5, RunFacts DEF taskVars, handlerVars
      <3> QED BY <1>0, <2>1, <3>1, EventsRun
    <2> QED BY <1>0, <1>5, <2>1, <2>2, RunContent, InvariantParts
  <1>6. CASE Dispatch
    <2>1. Control'
      BY <1>0, <1>6, DispatchControl
    <2>2. EventsBehind'
      <3>1. UNCHANGED <<wpc, entry, stream, hpc>>
        BY <1>0, <1>6, DispatchFacts DEF taskVars, handlerVars
      <3>2. \A u \in Task : Running(u)' <=> Running(u)
        BY <3>1 DEF Running
      <3> QED BY <1>0, <2>1, <3>1, <3>2, EventsLeftAlone
    <2> QED BY <1>0, <1>6, <2>1, <2>2, DispatchContent, InvariantParts
  <1>7. CASE UNCHANGED vars
    <2>1. /\ UNCHANGED <<registryVars, obj, written, wpc, key, hpc, grp, entry, acc, ok, stream, callbacks>>
          /\ UNCHANGED handlerVars
      BY <1>7 DEF vars, storageVars, taskVars, handlerVars, deviceVars
    <2>2. Control'
      BY <1>0, <2>1, TypedParts, StillTyped, TasksLeftAlone DEF Control
    <2>3. Content'
      BY <1>0, <2>1, <2>2, AsideContent
    <2>4. EventsBehind'
      <3>1. \A u \in Task : Running(u)' <=> Running(u)
        BY <2>1 DEF Running
      <3> QED BY <1>0, <2>1, <2>2, <3>1, EventsLeftAlone
    <2> QED BY <2>2, <2>3, <2>4, InvariantParts
  <1> QED BY <1>1, <1>2, <1>3, <1>4, <1>5, <1>6, <1>7 DEF Next, RegistryStep

\* An operation that is over has nothing but callbacks in the streams.
LEMMA IdleHasNoCopies == IInv => EventCoversCopies
  <1> SUFFICES ASSUME IInv, NEW t \in Task, wpc[t] = "idle", NEW e \in Entry,
                      NEW n \in DOMAIN stream[e], stream[e][n].task = t
               PROVE  stream[e][n].kind \in {"finishWrite", "finishRead"}
    BY DEF EventCoversCopies
  <1>1. ~EventPending(t)
    BY DEF IInv, EventsBehind
  <1>2. ~Running(t)
    BY DEF IInv, Handlers, Running
  <1>3. stream[e][n].kind \notin {"wait", "save", "load"}
    BY <1>1, <1>2 DEF IInv, EventsBehind, EventPending
  <1>4. stream[e][n].kind # "event"
    BY <1>1 DEF EventPending
  <1>5. stream[e][n].kind \in ItemKind
    <2>1. stream[e][n] \in ItemType
      BY ItemsTyped DEF IInv, Typed
    <2> QED BY <2>1 DEF ItemType
  <1> QED BY <1>3, <1>4, <1>5 DEF ItemKind

\* The invariant holds throughout.
THEOREM Invariance == Spec => []IInv
  BY InitIInv, NextIInv, PTL DEF Spec

\* A store, its stream and the dispatcher publish no object that the device
\* has not copied (PublishedIsCopied).
THEOREM PublishedAreCopied == Spec => []PublishedIsCopied
  <1>1. IInv => PublishedIsCopied
    BY DEF IInv, CopiesFirst
  <1> QED BY <1>1, Invariance, PTL

\* Once the worker takes an operation to be done, no copy of its blocks is to
\* come (EventCoversCopies).
THEOREM EventsCoverCopies == Spec => []EventCoversCopies
  BY Invariance, IdleHasNoCopies, PTL
=============================================================================
