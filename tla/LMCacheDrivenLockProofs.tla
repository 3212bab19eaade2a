----------------------- MODULE LMCacheDrivenLockProofs -----------------------
(***************************************************************************)
(* More proofs about LMCacheDrivenServer: every layout registration, every *)
(* write lock and every read lock is accounted for, copies that a retrieve *)
(* will answer for read locked objects, and the whole implements the cache *)
(* that ObjectCache specifies.                                             *)
(***************************************************************************)
EXTENDS LMCacheDrivenServerProofs, FiniteSetTheorems, FunctionTheorems

-----------------------------------------------------------------------------
(* Counting.                                                               *)

\* How much one member adds to the cardinality of a set.
One(condition) == IF condition THEN 1 ELSE 0

\* Two sets that differ in one element at most.
LEMMA OneElementDiffers ==
  ASSUME NEW S, NEW T, IsFiniteSet(S), NEW x, S \ {x} = T \ {x}
  PROVE  /\ IsFiniteSet(T)
         /\ Cardinality(S) \in Nat /\ Cardinality(T) \in Nat
         /\ Cardinality(T) + One(x \in S) = Cardinality(S) + One(x \in T)
  <1>1. IsFiniteSet(S \ {x}) /\ Cardinality(S) \in Nat
    BY FS_RemoveElement, FS_CardinalityType
  <1>2. CASE x \in T
    <2>1. T = (S \ {x}) \cup {x} /\ x \notin S \ {x}
      BY <1>2
    <2>2. IsFiniteSet(T) /\ Cardinality(T) = Cardinality(S \ {x}) + 1
      BY <1>1, <2>1, FS_AddElement
    <2>3. Cardinality(S \ {x}) = IF x \in S THEN Cardinality(S) - 1 ELSE Cardinality(S)
      BY FS_RemoveElement
    <2>4. Cardinality(T) \in Nat
      BY <2>2, FS_CardinalityType
    <2> QED BY <1>1, <1>2, <2>2, <2>3, <2>4 DEF One
  <1>3. CASE x \notin T
    <2>1. T = S \ {x}
      BY <1>3
    <2>2. Cardinality(S \ {x}) = IF x \in S THEN Cardinality(S) - 1 ELSE Cardinality(S)
      BY FS_RemoveElement
    <2>3. Cardinality(T) \in Nat
      BY <1>1, <2>1, FS_CardinalityType
    <2> QED BY <1>1, <1>3, <2>1, <2>2, <2>3 DEF One
  <1> QED BY <1>2, <1>3

\* A set and its image under a function that is one to one.
LEMMA OneToOne ==
  ASSUME NEW S, NEW T, IsFiniteSet(S), NEW F \in [S -> T],
         \A x, y \in S : F[x] = F[y] => x = y,
         \A z \in T : \E x \in S : F[x] = z
  PROVE  IsFiniteSet(T) /\ Cardinality(T) = Cardinality(S)
  <1>1. F \in Bijection(S, T)
    BY Fun_IsBij
  <1>2. ExistsBijection(S, T)
    BY <1>1 DEF ExistsBijection
  <1> QED BY <1>2, FS_Bijection

\* Instances, tasks and entries are finitely many.
LEMMA FinitelyMany ==
  /\ \A S \in SUBSET Instance : IsFiniteSet(S) /\ Cardinality(S) \in Nat
  /\ \A S \in SUBSET Task : IsFiniteSet(S) /\ Cardinality(S) \in Nat
  /\ \A S \in SUBSET Entry : IsFiniteSet(S) /\ Cardinality(S) \in Nat
  <1>1. IsFiniteSet(Entry)
    BY ConstantsAssumption, FS_Interval DEF Entry
  <1> QED BY <1>1, ConstantsAssumption, FS_Subset, FS_CardinalityType

-----------------------------------------------------------------------------
(* Registrations of layouts.                                               *)

\* An entry belongs to one instance; the one that is being made is newer than
\* all others, and its instance has none.
EntriesDistinct ==
    /\ \A i, j \in Instance : contexts[i] = contexts[j] /\ contexts[i] # NoEntry => i = j
    /\ \A i \in Instance : contexts[i] <= registrations
    /\ \A j \in laidOut : contexts[j] = NoEntry /\ \A i \in Instance : contexts[i] < registrations
    /\ \A i, j \in laidOut : i = j

\* The inductive invariant behind LayoutsAccounted.
Registrations ==
    /\ RegistryTyped /\ laidOut \subseteq Instance /\ releasing \in [Releaser -> SUBSET Entry]
    /\ EntriesDistinct
    /\ LayoutsAccounted

Registered == {i \in Instance : contexts[i] # NoEntry}

\* The four places a registration of a layout can belong to.
LEMMA LayoutsNat ==
  ASSUME laidOut \subseteq Instance, releasing \in [Releaser -> SUBSET Entry]
  PROVE  /\ IsFiniteSet(Registered) /\ Cardinality(Registered) \in Nat
         /\ IsFiniteSet(laidOut) /\ Cardinality(laidOut) \in Nat
         /\ \A r \in Releaser : IsFiniteSet(releasing[r]) /\ Cardinality(releasing[r]) \in Nat
         /\ "mainLoop" \in Releaser /\ "reaper" \in Releaser
         /\ LayoutsAccounted <=> layouts = Cardinality(Registered) + Cardinality(laidOut)
              + Cardinality(releasing["mainLoop"]) + Cardinality(releasing["reaper"])
  <1>1. Registered \in SUBSET Instance
    BY DEF Registered
  <1>2. \A r \in Releaser : releasing[r] \in SUBSET Entry
    OBVIOUS
  <1>3. LayoutsAccounted <=> layouts = Cardinality(Registered) + Cardinality(laidOut)
              + Cardinality(releasing["mainLoop"]) + Cardinality(releasing["reaper"])
    BY DEF LayoutsAccounted, Registered
  <1> QED BY <1>1, <1>2, <1>3, FinitelyMany DEF Releaser

\* Nothing is registered at the beginning.
LEMMA InitRegistrations == Init => Registrations
  <1> SUFFICES ASSUME Init PROVE Registrations
    OBVIOUS
  <1>1. RegistryTyped
    BY InitIInv, TypedParts DEF IInv
  <1>2. /\ laidOut = {} /\ layouts = 0 /\ releasing = [r \in Releaser |-> {}] /\ registrations = 0
        /\ Registered = {} /\ \A i \in Instance : contexts[i] = 0
    BY DEF Init, Registered, NoEntry
  <1>3. laidOut \subseteq Instance /\ releasing \in [Releaser -> SUBSET Entry]
    BY <1>2
  <1>4. EntriesDistinct
    BY <1>2 DEF EntriesDistinct, NoEntry
  <1>5. Cardinality({}) = 0
    BY FS_EmptySet
  <1>6. releasing["mainLoop"] = {} /\ releasing["reaper"] = {}
    BY <1>2 DEF Releaser
  <1>7. LayoutsAccounted
    BY <1>2, <1>3, <1>5, <1>6, LayoutsNat
  <1> QED BY <1>1, <1>3, <1>4, <1>7 DEF Registrations

\* REGISTER counts the layout, and then has an entry for it.
LEMMA RegisterCounts ==
  ASSUME Registrations, RegistryTyped', NEW i \in Instance, RegisterLayout(i) \/ InsertEntry(i)
  PROVE  Registrations'
  <1>0. /\ contexts \in [Instance -> Entry \cup {NoEntry}] /\ registrations \in Nat
        /\ \A j \in Instance : contexts[j] \in Nat
    BY ConstantsAssumption DEF Registrations, RegistryTyped, Entry, NoEntry
  <1>1. laidOut \subseteq Instance /\ releasing \in [Releaser -> SUBSET Entry]
    BY DEF Registrations
  <1>2. /\ releasing' = releasing /\ laidOut' \subseteq Instance
    BY DEF RegisterLayout, InsertEntry
  <1>c. /\ layouts = Cardinality(Registered) + Cardinality(laidOut)
              + Cardinality(releasing["mainLoop"]) + Cardinality(releasing["reaper"])
        /\ IsFiniteSet(Registered) /\ Cardinality(Registered) \in Nat
        /\ Cardinality(laidOut) \in Nat
        /\ Cardinality(releasing["mainLoop"]) \in Nat /\ Cardinality(releasing["reaper"]) \in Nat
    BY <1>1, LayoutsNat DEF Registrations
  <1>d. layouts' = Cardinality(Registered') + Cardinality(laidOut')
              + Cardinality(releasing["mainLoop"]) + Cardinality(releasing["reaper"])
              => LayoutsAccounted'
    BY <1>2 DEF LayoutsAccounted, Registered
  <1>e. Cardinality({}) = 0 /\ Cardinality({i}) = 1
    BY FS_EmptySet, FS_Singleton
  <1>3. CASE RegisterLayout(i)
    <2>1. /\ laidOut = {} /\ laidOut' = {i} /\ layouts' = layouts + 1
          /\ registrations' = registrations + 1 /\ contexts' = contexts /\ contexts[i] = NoEntry
      BY <1>3 DEF RegisterLayout, MainLoopFree
    <2>2. EntriesDistinct'
      BY <1>0, <2>1 DEF Registrations, EntriesDistinct
    <2>3. Registered' = Registered
      BY <2>1 DEF Registered
    <2>4. LayoutsAccounted'
      <3>1. /\ Cardinality(Registered') = Cardinality(Registered)
            /\ Cardinality(laidOut) = 0 /\ Cardinality(laidOut') = 1
        BY <1>e, <2>1, <2>3
      <3>2. layouts' = Cardinality(Registered') + Cardinality(laidOut')
              + Cardinality(releasing["mainLoop"]) + Cardinality(releasing["reaper"])
        <4>1. layouts' = layouts + 1
          BY <2>1
        <4> QED BY <1>c, <3>1, <4>1
      <3> QED BY <1>d, <3>2
    <2> QED BY <1>1, <1>2, <2>2, <2>4 DEF Registrations
  <1>4. CASE InsertEntry(i)
    <2>1. /\ i \in laidOut /\ laidOut' = {} /\ layouts' = layouts /\ registrations' = registrations
          /\ contexts' = [contexts EXCEPT ![i] = registrations]
      BY <1>4 DEF InsertEntry
    <2>2. laidOut = {i} /\ contexts[i] = NoEntry /\ registrations # NoEntry
      BY <1>0, <2>1 DEF Registrations, EntriesDistinct, RegistryTyped, Entry, NoEntry
    <2>3. \A j \in Instance : contexts'[j] = IF j = i THEN registrations ELSE contexts[j]
      BY <1>0, <2>1
    <2>4. EntriesDistinct'
      BY <1>0, <2>1, <2>3 DEF Registrations, EntriesDistinct
    <2>5. Registered' = Registered \cup {i} /\ i \notin Registered
      BY <2>2, <2>3 DEF Registered
    <2>6. Cardinality(Registered') = Cardinality(Registered) + 1
      BY <1>c, <2>5, FS_AddElement
    <2>7. LayoutsAccounted'
      BY <1>c, <1>d, <1>e, <2>1, <2>2, <2>6
    <2> QED BY <1>1, <1>2, <2>4, <2>7 DEF Registrations
  <1> QED BY <1>3, <1>4

\* Entries that are popped go to the one that releases them, which has none.
LEMMA PopCounts ==
  ASSUME Registrations, RegistryTyped', NEW r \in Releaser, NEW gone \in SUBSET Instance,
         \A i \in gone : contexts[i] # NoEntry,
         Pop(gone), releasing[r] = {},
         releasing' = [releasing EXCEPT ![r] = {contexts[i] : i \in gone}],
         UNCHANGED <<laidOut, layouts, registrations>>
  PROVE  Registrations'
  <1> DEFINE popped == {contexts[i] : i \in gone}
  <1>0. /\ contexts \in [Instance -> Entry \cup {NoEntry}] /\ registrations \in Nat
        /\ \A j \in Instance : contexts[j] \in Nat
    BY ConstantsAssumption DEF Registrations, RegistryTyped, Entry, NoEntry
  <1>1. laidOut \subseteq Instance /\ releasing \in [Releaser -> SUBSET Entry]
    BY DEF Registrations
  <1>2. /\ layouts = Cardinality(Registered) + Cardinality(laidOut)
              + Cardinality(releasing["mainLoop"]) + Cardinality(releasing["reaper"])
        /\ IsFiniteSet(Registered) /\ Cardinality(Registered) \in Nat
        /\ Cardinality(laidOut) \in Nat
        /\ \A q \in Releaser : Cardinality(releasing[q]) \in Nat
        /\ IsFiniteSet(gone) /\ Cardinality(gone) \in Nat /\ Cardinality({}) = 0
    BY <1>1, LayoutsNat, FinitelyMany, FS_EmptySet DEF Registrations
  <1>3. popped \subseteq Entry
    BY <1>0
  <1>4. releasing' \in [Releaser -> SUBSET Entry] /\ releasing'[r] = popped
    BY <1>1, <1>3
  <1>5. \A q \in Releaser \ {r} : releasing'[q] = releasing[q]
    BY <1>1
  <1>6. Cardinality(popped) = Cardinality(gone)
    <2> DEFINE F == [i \in gone |-> contexts[i]]
    <2>1. F \in [gone -> popped] /\ \A e \in popped : \E i \in gone : F[i] = e
      OBVIOUS
    <2>2. \A i, j \in gone : F[i] = F[j] => i = j
      BY DEF Registrations, EntriesDistinct
    <2> HIDE DEF F, popped
    <2> QED BY <1>2, <2>1, <2>2, OneToOne
  <1>7. \A i \in Instance : contexts'[i] = IF i \in gone THEN NoEntry ELSE contexts[i]
    BY DEF Pop
  <1>8. Registered' = Registered \ gone /\ Registered \cap gone = gone
    BY <1>7 DEF Registered
  <1>9. Cardinality(Registered') = Cardinality(Registered) - Cardinality(gone)
    BY <1>2, <1>8, FS_Difference
  <1>10. EntriesDistinct'
    BY <1>0, <1>7 DEF Registrations, EntriesDistinct, NoEntry
  <1> HIDE DEF popped
  <1>11. Cardinality(releasing'["mainLoop"]) + Cardinality(releasing'["reaper"])
           = Cardinality(releasing["mainLoop"]) + Cardinality(releasing["reaper"]) + Cardinality(gone)
    <2>1. CASE r = "mainLoop"
      <3>1. "reaper" \in Releaser \ {r} /\ "mainLoop" \in Releaser
        BY <2>1 DEF Releaser
      <3>2. releasing'["reaper"] = releasing["reaper"] /\ releasing'["mainLoop"] = popped
            /\ releasing["mainLoop"] = {}
        BY <1>4, <1>5, <2>1, <3>1
      <3>3. /\ Cardinality(releasing'["mainLoop"]) = Cardinality(gone)
            /\ Cardinality(releasing'["reaper"]) = Cardinality(releasing["reaper"])
            /\ Cardinality(releasing["mainLoop"]) = 0 /\ Cardinality(releasing["reaper"]) \in Nat
        BY <1>2, <1>6, <3>1, <3>2
      <3> QED BY <1>2, <3>3
    <2>2. CASE r = "reaper"
      <3>1. "mainLoop" \in Releaser \ {r} /\ "reaper" \in Releaser
        BY <2>2 DEF Releaser
      <3>2. releasing'["mainLoop"] = releasing["mainLoop"] /\ releasing'["reaper"] = popped
            /\ releasing["reaper"] = {}
        BY <1>4, <1>5, <2>2, <3>1
      <3>3. /\ Cardinality(releasing'["reaper"]) = Cardinality(gone)
            /\ Cardinality(releasing'["mainLoop"]) = Cardinality(releasing["mainLoop"])
            /\ Cardinality(releasing["reaper"]) = 0 /\ Cardinality(releasing["mainLoop"]) \in Nat
        BY <1>2, <1>6, <3>1, <3>2
      <3> QED BY <1>2, <3>3
    <2> QED BY <2>1, <2>2 DEF Releaser
  <1>12. LayoutsAccounted'
    <2>1. layouts' = Cardinality(Registered') + Cardinality(laidOut')
              + Cardinality(releasing'["mainLoop"]) + Cardinality(releasing'["reaper"])
      <3>1. Cardinality(releasing'["mainLoop"]) \in Nat /\ Cardinality(releasing'["reaper"]) \in Nat
        BY <1>2, <1>4, <1>5, <1>6 DEF Releaser
      <3> QED BY <1>2, <1>9, <1>11, <3>1 DEF Releaser
    <2> QED BY <2>1 DEF LayoutsAccounted, Registered
  <1> QED BY <1>1, <1>4, <1>10, <1>12 DEF Registrations

\* A release gives the registration of its entry back.
LEMMA ReleaseCounts ==
  ASSUME Registrations, RegistryTyped', NEW r \in Releaser, NEW e \in Entry, ReleaseEntry(r, e)
  PROVE  Registrations'
  <1>1. laidOut \subseteq Instance /\ releasing \in [Releaser -> SUBSET Entry]
    BY DEF Registrations
  <1>2. /\ e \in releasing[r] /\ releasing' = [releasing EXCEPT ![r] = @ \ {e}]
        /\ layouts' = layouts - 1 /\ UNCHANGED <<contexts, laidOut, registrations>>
    BY DEF ReleaseEntry
  <1>3. /\ layouts = Cardinality(Registered) + Cardinality(laidOut)
              + Cardinality(releasing["mainLoop"]) + Cardinality(releasing["reaper"])
        /\ Cardinality(Registered) \in Nat /\ Cardinality(laidOut) \in Nat
        /\ \A q \in Releaser : IsFiniteSet(releasing[q]) /\ Cardinality(releasing[q]) \in Nat
    BY <1>1, LayoutsNat DEF Registrations
  <1>4. releasing'[r] = releasing[r] \ {e} /\ \A q \in Releaser \ {r} : releasing'[q] = releasing[q]
    BY <1>1, <1>2
  <1>5. Cardinality(releasing'[r]) = Cardinality(releasing[r]) - 1
    <2>1. IsFiniteSet(releasing[r]) /\ e \in releasing[r]
      BY <1>2, <1>3
    <2>2. Cardinality(releasing[r] \ {e}) = Cardinality(releasing[r]) - 1
      BY <2>1, FS_RemoveElement
    <2> QED BY <1>4, <2>2
  <1>6. Cardinality(releasing'["mainLoop"]) + Cardinality(releasing'["reaper"])
           = Cardinality(releasing["mainLoop"]) + Cardinality(releasing["reaper"]) - 1
    <2>1. CASE r = "mainLoop"
      <3>1. "reaper" \in Releaser \ {r} /\ "mainLoop" \in Releaser
        BY <2>1 DEF Releaser
      <3>2. releasing'["reaper"] = releasing["reaper"]
        BY <1>4, <3>1
      <3>3. /\ Cardinality(releasing'["mainLoop"]) = Cardinality(releasing["mainLoop"]) - 1
            /\ Cardinality(releasing'["reaper"]) = Cardinality(releasing["reaper"])
        BY <1>5, <2>1, <3>2
      <3>4. Cardinality(releasing["mainLoop"]) \in Nat /\ Cardinality(releasing["reaper"]) \in Nat
        BY <1>3, <3>1
      <3> QED BY <3>3, <3>4
    <2>2. CASE r = "reaper"
      <3>1. "mainLoop" \in Releaser \ {r} /\ "reaper" \in Releaser
        BY <2>2 DEF Releaser
      <3>2. releasing'["mainLoop"] = releasing["mainLoop"]
        BY <1>4, <3>1
      <3>3. /\ Cardinality(releasing'["reaper"]) = Cardinality(releasing["reaper"]) - 1
            /\ Cardinality(releasing'["mainLoop"]) = Cardinality(releasing["mainLoop"])
        BY <1>5, <2>2, <3>2
      <3>4. Cardinality(releasing["mainLoop"]) \in Nat /\ Cardinality(releasing["reaper"]) \in Nat
        BY <1>3, <3>1
      <3> QED BY <3>3, <3>4
    <2> QED BY <2>1, <2>2 DEF Releaser
  <1>7. LayoutsAccounted'
    <2>1. Cardinality(releasing'["mainLoop"]) \in Int /\ Cardinality(releasing'["reaper"]) \in Int
      <3>1. \A q \in Releaser : Cardinality(releasing'[q]) \in Int
        <4>1. Cardinality(releasing'[r]) \in Int
          BY <1>3, <1>5
        <4>2. \A q \in Releaser \ {r} : Cardinality(releasing'[q]) \in Int
          BY <1>3, <1>4
        <4> QED BY <4>1, <4>2
      <3> QED BY <3>1 DEF Releaser
    <2>2. layouts' = Cardinality(Registered) + Cardinality(laidOut)
              + Cardinality(releasing'["mainLoop"]) + Cardinality(releasing'["reaper"])
      BY <1>2, <1>3, <1>6, <2>1 DEF Releaser
    <2> QED BY <1>2, <2>2 DEF LayoutsAccounted, Registered
  <1>8. EntriesDistinct' /\ releasing' \in [Releaser -> SUBSET Entry]
    BY <1>1, <1>2 DEF Registrations, EntriesDistinct
  <1> QED BY <1>1, <1>2, <1>7, <1>8 DEF Registrations

\* Every step keeps the registrations accounted for.
LEMMA NextRegistrations == IInv /\ IInv' /\ Registrations /\ [Next]_vars => Registrations'
  <1> SUFFICES ASSUME IInv, IInv', Registrations, [Next]_vars PROVE Registrations'
    OBVIOUS
  <1>0. RegistryTyped'
    BY TypedParts DEF IInv
  <1>1. ASSUME UNCHANGED registryVars PROVE Registrations'
    BY <1>1 DEF Registrations, RegistryTyped, EntriesDistinct, LayoutsAccounted, registryVars
  <1>2. ASSUME NEW i \in Instance, Unregister(i) PROVE Registrations'
    <2> DEFINE gone == {i} \cap Registered
    <2>1. /\ contexts \in [Instance -> Entry \cup {NoEntry}] /\ "mainLoop" \in Releaser
      BY DEF Registrations, RegistryTyped, Releaser
    <2>2. {contexts[i]} \ {NoEntry} = {contexts[j] : j \in gone}
      BY DEF Registered
    <2>3. Pop(gone)
      <3>1. \A j \in Instance : (IF j \in {i} THEN NoEntry ELSE contexts[j])
                                  = IF j \in gone THEN NoEntry ELSE contexts[j]
        BY DEF Registered
      <3> HIDE DEF gone
      <3> QED BY <1>2, <3>1 DEF Unregister, Pop
    <2>4. /\ releasing' = [releasing EXCEPT !["mainLoop"] = {contexts[j] : j \in gone}]
          /\ releasing["mainLoop"] = {} /\ UNCHANGED <<laidOut, layouts, registrations>>
      BY <1>2, <2>2 DEF Unregister, MainLoopFree
    <2>5. gone \in SUBSET Instance /\ \A j \in gone : contexts[j] # NoEntry
      BY DEF Registered
    <2> HIDE DEF gone
    <2> QED BY <1>0, <2>1, <2>3, <2>4, <2>5, PopCounts
  <1>3. ASSUME NEW stale \in SUBSET Instance, ReapStale(stale) PROVE Registrations'
    BY <1>0, <1>3, PopCounts DEF ReapStale, Releaser
  <1>4. ASSUME NEW t \in Task, Worker(t) \/ Resolve(t) \/ Handle(t) PROVE UNCHANGED registryVars
    BY <1>4 DEF Worker, SubmitStore, SubmitRetrieve, Send, EngineEvent, FutureDone, Resolve,
        NotRegistered, Malformed, Underflow, BeginStore, BeginRetrieve, Resolved, Handle, StoreGroup,
        StoreRaises, FinishStore, ReadMisses, LoadGroup, LoadRaises, FinishRetrieve
  <1>5. ASSUME NEW e \in Entry, RunStream(e) PROVE UNCHANGED registryVars
    BY <1>5 DEF RunStream, PassWait, RunSave, RunOn, RunCallback
  <1>6. ASSUME NEW o \in ObjectKey, Evict(o) PROVE UNCHANGED registryVars
    BY <1>6 DEF Evict
  <1>7. Dispatch \/ UNCHANGED vars => UNCHANGED registryVars
    BY DEF Dispatch, vars
  <1> QED BY <1>0, <1>1, <1>2, <1>3, <1>4, <1>5, <1>6, <1>7, RegisterCounts, ReleaseCounts
          DEF Next, Lifecycle

\* Entries are released once.
LEMMA RegistrationsHold == Spec => []Registrations
  <1>1. IInv /\ IInv' /\ Registrations /\ [Next]_vars => Registrations'
    BY NextRegistrations
  <1> QED BY <1>1, InitRegistrations, Invariance, PTL DEF Spec

\* Every registration of a layout belongs to an entry, to one that is being
\* made, or to one that is being released (LayoutsAccounted): unregistering and
\* reaping at the same time neither leak one nor give one back twice.
THEOREM LayoutsAreAccounted == Spec => []LayoutsAccounted
  <1>1. Registrations => LayoutsAccounted
    BY DEF Registrations
  <1> QED BY <1>1, RegistrationsHold, PTL

-----------------------------------------------------------------------------
(* Callbacks that are to come.                                             *)

Carries(item, kind, o) == item.kind = kind /\ o \in item.objs

\* Where such items are, in streams and in a sequence.
Pairs(s, kind, o) ==
    UNION {{<<e, n>> : n \in {m \in DOMAIN s[e] :
        s[e][m].kind = kind /\ o \in s[e][m].objs}} : e \in Entry}
Places(q, kind, o) == {n \in DOMAIN q : q[n].kind = kind /\ o \in q[n].objs}

\* How many of them are to come.
Awaits(kind, o) == Cardinality(Enqueued(kind, o)) + Cardinality(HandedOver(kind, o))

\* Places and pairs, by their members.
LEMMA PairsMembers ==
  ASSUME NEW s, NEW kind, NEW o
  PROVE  \A x : x \in Pairs(s, kind, o) <=>
           \E e \in Entry : \E n \in DOMAIN s[e] : x = <<e, n>> /\ Carries(s[e][n], kind, o)
  <1> DEFINE At(e) == {m \in DOMAIN s[e] : Carries(s[e][m], kind, o)}
             Row(e) == {<<e, n>> : n \in At(e)}
  <1>1. Pairs(s, kind, o) = UNION {Row(e) : e \in Entry}
    BY DEF Pairs, Carries
  <1>2. \A x : \A e : x \in Row(e) <=> \E n \in DOMAIN s[e] : x = <<e, n>> /\ Carries(s[e][n], kind, o)
    <2> SUFFICES ASSUME NEW x, NEW e
                 PROVE  x \in Row(e) <=> \E n \in DOMAIN s[e] : x = <<e, n>> /\ Carries(s[e][n], kind, o)
      OBVIOUS
    <2>1. x \in Row(e) <=> \E n \in At(e) : x = <<e, n>>
      OBVIOUS
    <2>2. \A n : n \in At(e) <=> n \in DOMAIN s[e] /\ Carries(s[e][n], kind, o)
      OBVIOUS
    <2> HIDE DEF At, Row
    <2> QED BY <2>1, <2>2
  <1> HIDE DEF At, Row
  <1>3. \A x : x \in UNION {Row(e) : e \in Entry} <=> \E e \in Entry : x \in Row(e)
    OBVIOUS
  <1> QED BY <1>1, <1>2, <1>3

\* They are finitely many.
LEMMA PairsFinite ==
  ASSUME NEW s \in [Entry -> Seq(ItemType)], NEW kind, NEW o
  PROVE  IsFiniteSet(Pairs(s, kind, o)) /\ Cardinality(Pairs(s, kind, o)) \in Nat
  <1> DEFINE Row(e) == {<<e, n>> : n \in {m \in DOMAIN s[e] : s[e][m].kind = kind /\ o \in s[e][m].objs}}
             Rows == {Row(e) : e \in Entry}
  <1>1. ASSUME NEW e \in Entry PROVE IsFiniteSet(Row(e))
    <2>1. s[e] \in Seq(ItemType)
      OBVIOUS
    <2>2. Len(s[e]) \in Nat /\ DOMAIN s[e] = 1 .. Len(s[e])
      BY <2>1
    <2>3. IsFiniteSet({e} \X (1 .. Len(s[e])))
      <3>1. IsFiniteSet({e})
        BY FS_Singleton
      <3>2. IsFiniteSet(1 .. Len(s[e]))
        BY <2>2, FS_Interval
      <3> QED BY <3>1, <3>2, FS_Product
    <2>4. Row(e) \subseteq {e} \X (1 .. Len(s[e]))
      BY <2>2
    <2> HIDE DEF Row
    <2> QED BY <2>3, <2>4, FS_Subset
  <1>2. IsFiniteSet(Rows)
    <2> DEFINE F == [e \in Entry |-> Row(e)]
    <2>1. F \in [Entry -> Rows] /\ \A row \in Rows : \E e \in Entry : F[e] = row
      BY DEF F, Rows
    <2>2. IsFiniteSet(Entry)
      BY FinitelyMany
    <2> HIDE DEF F, Row, Rows
    <2>3. F \in Surjection(Entry, Rows)
      BY <2>1, Fun_IsSurj
    <2> QED BY <2>2, <2>3, FS_Surjection
  <1>3. Pairs(s, kind, o) = UNION Rows
    BY DEF Pairs
  <1>4. \A row \in Rows : IsFiniteSet(row)
    BY <1>1
  <1> HIDE DEF Row, Rows
  <1>5. IsFiniteSet(UNION Rows)
    BY <1>2, <1>4, FS_UNION
  <1> QED BY <1>3, <1>5, FS_CardinalityType

\* So are the places of a sequence.
LEMMA PlacesFinite ==
  ASSUME NEW q \in Seq(ItemType), NEW kind, NEW o
  PROVE  IsFiniteSet(Places(q, kind, o)) /\ Cardinality(Places(q, kind, o)) \in Nat
  <1>1. Len(q) \in Nat /\ DOMAIN q = 1 .. Len(q)
    OBVIOUS
  <1>2. IsFiniteSet(1 .. Len(q))
    BY <1>1, FS_Interval
  <1>3. Places(q, kind, o) \subseteq 1 .. Len(q)
    BY <1>1 DEF Places
  <1> QED BY <1>2, <1>3, FS_Subset, FS_CardinalityType

\* Streams z are streams s with items behind that of e; or without its first.
Extended(s, e, items, z) ==
    /\ s \in [Entry -> Seq(ItemType)] /\ e \in Entry /\ items \in Seq(ItemType)
    /\ z[e] = s[e] \o items /\ \A f \in Entry \ {e} : z[f] = s[f]

Shortened(s, e, z) ==
    /\ s \in [Entry -> Seq(ItemType)] /\ e \in Entry /\ s[e] # <<>>
    /\ z \in [Entry -> Seq(ItemType)] /\ z[e] = Tail(s[e]) /\ \A f \in Entry \ {e} : z[f] = s[f]

\* Items behind a stream, of which none, or one, carries the object.
LEMMA PairsExtended ==
  ASSUME NEW s, NEW e, NEW items, NEW z, NEW kind, NEW o, Extended(s, e, items, z)
  PROVE  /\ (\A p \in 1 .. Len(items) : ~Carries(items[p], kind, o))
              => Pairs(z, kind, o) = Pairs(s, kind, o)
         /\ \A p \in 1 .. Len(items) :
              Carries(items[p], kind, o) /\ (\A q \in 1 .. Len(items) : Carries(items[q], kind, o) => q = p)
              => /\ Pairs(z, kind, o)
                      = Pairs(s, kind, o) \cup {<<e, Len(s[e]) + p>>}
                 /\ <<e, Len(s[e]) + p>> \notin Pairs(s, kind, o)
  <1> DEFINE L == Len(s[e])
             Old(x) == \E f \in Entry : \E n \in DOMAIN s[f] : x = <<f, n>> /\ Carries(s[f][n], kind, o)
             New(x) == \E f \in Entry : \E n \in DOMAIN z[f] : x = <<f, n>> /\ Carries(z[f][n], kind, o)
  <1>0. s \in [Entry -> Seq(ItemType)] /\ e \in Entry /\ items \in Seq(ItemType)
    BY DEF Extended
  <1>1. s[e] \in Seq(ItemType) /\ z[e] = s[e] \o items /\ \A f \in Entry \ {e} : z[f] = s[f]
    BY DEF Extended
  <1>2. /\ L \in Nat /\ Len(items) \in Nat /\ DOMAIN s[e] = 1 .. L
        /\ DOMAIN z[e] = 1 .. (L + Len(items))
        /\ \A n \in 1 .. L : z[e][n] = s[e][n]
        /\ \A n \in (L + 1) .. (L + Len(items)) : z[e][n] = items[n - L]
    <2>1. z[e] \in Seq(ItemType)
      BY <1>0, <1>1, Extend
    <2>2. Len(z[e]) = L + Len(items)
      BY <1>0, <1>1, Extend
    <2>3. DOMAIN z[e] = 1 .. Len(z[e]) /\ DOMAIN s[e] = 1 .. L
      BY <1>1, <2>1
    <2>4. L \in Nat /\ Len(items) \in Nat
      BY <1>1
    <2>5. /\ \A n \in 1 .. L : z[e][n] = s[e][n]
          /\ \A n \in (L + 1) .. (L + Len(items)) : z[e][n] = items[n - L]
      BY <1>1, <2>2, Extend
    <2> QED BY <2>2, <2>3, <2>4, <2>5
  <1> HIDE DEF L
  <1>3. \A x : (x \in Pairs(s, kind, o) <=> Old(x)) /\ (x \in Pairs(z, kind, o) <=> New(x))
    <2>1. \A x : x \in Pairs(s, kind, o) <=> Old(x)
      BY PairsMembers
    <2>2. \A x : x \in Pairs(z, kind, o) <=> New(x)
      BY PairsMembers
    <2> QED BY <2>1, <2>2
  <1>4. \A x : Old(x) => New(x)
    <2> SUFFICES ASSUME NEW f \in Entry, NEW n \in DOMAIN s[f], Carries(s[f][n], kind, o)
                 PROVE  n \in DOMAIN z[f] /\ Carries(z[f][n], kind, o)
      OBVIOUS
    <2>1. CASE f # e
      BY <1>1, <2>1
    <2>2. CASE f = e
      BY <1>2, <2>2
    <2> QED BY <2>1, <2>2
  <1>5. \A x : New(x) => \/ Old(x)
                         \/ \E p \in 1 .. Len(items) : x = <<e, L + p>> /\ Carries(items[p], kind, o)
    <2> SUFFICES ASSUME NEW f \in Entry, NEW n \in DOMAIN z[f], Carries(z[f][n], kind, o)
                 PROVE  \/ n \in DOMAIN s[f] /\ Carries(s[f][n], kind, o)
                        \/ \E p \in 1 .. Len(items) : <<f, n>> = <<e, L + p>> /\ Carries(items[p], kind, o)
      OBVIOUS
    <2>1. CASE f # e
      BY <1>1, <2>1
    <2>2. CASE f = e /\ n \in 1 .. L
      BY <1>2, <2>2
    <2>3. CASE f = e /\ n \in (L + 1) .. (L + Len(items))
      <3>1. n - L \in 1 .. Len(items) /\ n = L + (n - L) /\ z[e][n] = items[n - L]
        BY <1>2, <2>3
      <3> QED BY <2>3, <3>1
    <2> QED BY <1>2, <2>1, <2>2, <2>3
  <1>6. \A p \in 1 .. Len(items) : Carries(items[p], kind, o) => New(<<e, L + p>>) /\ ~Old(<<e, L + p>>)
    <2> SUFFICES ASSUME NEW p \in 1 .. Len(items), Carries(items[p], kind, o)
                 PROVE  New(<<e, L + p>>) /\ ~Old(<<e, L + p>>)
      OBVIOUS
    <2>1. /\ L + p \in (L + 1) .. (L + Len(items)) /\ (L + p) - L = p
          /\ L + p \in 1 .. (L + Len(items)) /\ L + p \notin 1 .. L
      BY <1>2
    <2>2. L + p \in DOMAIN z[e] /\ z[e][L + p] = items[p] /\ L + p \notin DOMAIN s[e]
      <3>1. z[e][L + p] = items[(L + p) - L]
        BY <1>2, <2>1, Zenon
      <3> QED BY <1>2, <2>1, <3>1
    <2> QED BY <1>0, <2>2
  <1> HIDE DEF Old, New
  <1>7. (\A p \in 1 .. Len(items) : ~Carries(items[p], kind, o)) => Pairs(z, kind, o) = Pairs(s, kind, o)
    BY <1>3, <1>4, <1>5
  <1>8. ASSUME NEW p \in 1 .. Len(items), Carries(items[p], kind, o),
               \A q \in 1 .. Len(items) : Carries(items[q], kind, o) => q = p
        PROVE  /\ Pairs(z, kind, o) = Pairs(s, kind, o) \cup {<<e, L + p>>}
               /\ <<e, L + p>> \notin Pairs(s, kind, o)
    BY <1>3, <1>4, <1>5, <1>6, <1>8
  <1> QED BY <1>7, <1>8 DEF L

\* A stream without its first item.
LEMMA PairsShortened ==
  ASSUME NEW s, NEW e, NEW z, NEW kind, NEW o, Shortened(s, e, z)
  PROVE  Cardinality(Pairs(s, kind, o))
           = Cardinality(Pairs(z, kind, o)) + One(Carries(Head(s[e]), kind, o))
  <1> DEFINE S == Pairs(s, kind, o)
             Z == Pairs(z, kind, o)
             T == S \ {<<e, 1>>}
             F == [x \in Z |-> IF x[1] = e THEN <<e, x[2] + 1>> ELSE x]
  <1>0. /\ s \in [Entry -> Seq(ItemType)] /\ e \in Entry /\ s[e] # <<>>
        /\ z \in [Entry -> Seq(ItemType)]
    BY DEF Shortened
  <1>1. /\ s[e] \in Seq(ItemType) /\ z[e] = Tail(s[e]) /\ \A f \in Entry \ {e} : z[f] = s[f]
    BY DEF Shortened
  <1>2. /\ z[e] \in Seq(ItemType) /\ Head(s[e]) = s[e][1]
        /\ DOMAIN s[e] = 1 .. Len(s[e]) /\ Len(s[e]) \in Nat \ {0}
        /\ DOMAIN z[e] = 1 .. (Len(s[e]) - 1)
        /\ \A n \in 1 .. (Len(s[e]) - 1) : z[e][n] = s[e][n + 1]
    <2>1. /\ Tail(s[e]) \in Seq(ItemType) /\ Head(s[e]) = s[e][1]
          /\ Len(s[e]) \in Nat \ {0} /\ Len(Tail(s[e])) = Len(s[e]) - 1
          /\ \A n \in 1 .. (Len(s[e]) - 1) : Tail(s[e])[n] = s[e][n + 1]
      BY <1>0, <1>1, Shorten
    <2>2. DOMAIN Tail(s[e]) = 1 .. Len(Tail(s[e])) /\ DOMAIN s[e] = 1 .. Len(s[e])
      BY <1>1, <2>1
    <2> QED BY <1>1, <2>1, <2>2
  <1>4. IsFiniteSet(S) /\ IsFiniteSet(Z) /\ Cardinality(S) \in Nat /\ Cardinality(Z) \in Nat
    BY <1>0, PairsFinite
  <1>5. /\ \A x : x \in S <=>
             \E f \in Entry : \E n \in DOMAIN s[f] : x = <<f, n>> /\ Carries(s[f][n], kind, o)
        /\ \A x : x \in Z <=>
             \E f \in Entry : \E n \in DOMAIN z[f] : x = <<f, n>> /\ Carries(z[f][n], kind, o)
    BY PairsMembers
  <1> HIDE DEF S, Z
  <1>6. \A f \in Entry : \A n \in DOMAIN z[f] : Carries(z[f][n], kind, o) =>
           F[<<f, n>>] = (IF f = e THEN <<e, n + 1>> ELSE <<f, n>>)
    BY <1>5
  <1>7. ASSUME NEW f \in Entry, NEW n \in DOMAIN z[f], Carries(z[f][n], kind, o)
        PROVE  (IF f = e THEN <<e, n + 1>> ELSE <<f, n>>) \in T
    <2>1. CASE f = e
      <3>0. n \in 1 .. (Len(s[e]) - 1)
        BY <1>2, <2>1
      <3>0a. Len(s[e]) \in Nat /\ DOMAIN s[e] = 1 .. Len(s[e]) /\ z[e][n] = s[e][n + 1]
        BY <1>2, <3>0
      <3>0b. n \in Nat /\ n <= Len(s[e]) - 1 /\ 1 <= n
        BY <3>0, <3>0a
      <3>0c. n + 1 \in 1 .. Len(s[e]) /\ n + 1 # 1
        BY <3>0a, <3>0b
      <3>1. n + 1 \in DOMAIN s[e] /\ z[e][n] = s[e][n + 1] /\ n + 1 # 1
        BY <3>0a, <3>0c
      <3>2. <<e, n + 1>> \in S
        BY <1>5, <1>7, <2>1, <3>1
      <3> QED BY <2>1, <3>1, <3>2
    <2>2. CASE f # e
      <3>1. <<f, n>> \in S
        BY <1>1, <1>5, <1>7, <2>2
      <3> QED BY <2>2, <3>1
    <2> QED BY <2>1, <2>2
  <1>8. F \in [Z -> T]
    <2> SUFFICES ASSUME NEW x \in Z PROVE F[x] \in T
      OBVIOUS
    <2>1f. PICK f \in Entry : \E n \in DOMAIN z[f] : x = <<f, n>> /\ Carries(z[f][n], kind, o)
      BY <1>5
    <2>1. PICK n \in DOMAIN z[f] : x = <<f, n>> /\ Carries(z[f][n], kind, o)
      BY <2>1f
    <2>2. F[x] = IF f = e THEN <<e, n + 1>> ELSE <<f, n>>
      BY <1>6, <2>1
    <2> HIDE DEF F, T
    <2> QED BY <1>7, <2>1, <2>2
  <1>9. ASSUME NEW x \in Z, NEW y \in Z, F[x] = F[y] PROVE x = y
    <2>1f. PICK f \in Entry : \E n \in DOMAIN z[f] : x = <<f, n>> /\ Carries(z[f][n], kind, o)
      BY <1>5
    <2>1. PICK n \in DOMAIN z[f] : x = <<f, n>> /\ Carries(z[f][n], kind, o)
      BY <2>1f
    <2>2f. PICK g \in Entry : \E m \in DOMAIN z[g] : y = <<g, m>> /\ Carries(z[g][m], kind, o)
      BY <1>5
    <2>2. PICK m \in DOMAIN z[g] : y = <<g, m>> /\ Carries(z[g][m], kind, o)
      BY <2>2f
    <2>3. /\ F[x] = IF f = e THEN <<e, n + 1>> ELSE <<f, n>>
          /\ F[y] = IF g = e THEN <<e, m + 1>> ELSE <<g, m>>
      BY <1>6, <2>1, <2>2
    <2> HIDE DEF F
    <2>4. CASE f = e /\ g = e
      <3>0. n \in Int /\ m \in Int
        BY <1>2, <2>4
      <3>a. F[x] = <<e, n + 1>> /\ F[y] = <<e, m + 1>> /\ F[x] = F[y]
        BY <1>9, <2>3, <2>4
      <3>1. n + 1 = m + 1
        BY <3>a
      <3> QED BY <2>1, <2>2, <2>4, <3>0, <3>1
    <2>5. CASE f # e \/ g # e
      BY <1>9, <2>1, <2>2, <2>3, <2>5
    <2> QED BY <2>4, <2>5
  <1>10. ASSUME NEW y \in T PROVE \E x \in Z : F[x] = y
    <2>1f. PICK f \in Entry : \E n \in DOMAIN s[f] : y = <<f, n>> /\ Carries(s[f][n], kind, o)
      BY <1>5
    <2>1. PICK n \in DOMAIN s[f] : y = <<f, n>> /\ Carries(s[f][n], kind, o)
      BY <2>1f
    <2>2. CASE f # e
      <3>1. n \in DOMAIN z[f] /\ Carries(z[f][n], kind, o)
        BY <1>1, <2>1, <2>2
      <3>2. <<f, n>> \in Z /\ F[<<f, n>>] = <<f, n>>
        BY <1>5, <1>6, <2>2, <3>1
      <3> QED BY <2>1, <3>2
    <2>3. CASE f = e
      <3>1. n \in 1 .. Len(s[e]) /\ n # 1
        BY <1>2, <2>1, <2>3
      <3>2. n - 1 \in 1 .. (Len(s[e]) - 1) /\ (n - 1) + 1 = n
        BY <1>2, <3>1
      <3>3. z[e][n - 1] = s[e][(n - 1) + 1]
        BY <1>2, <3>2, Zenon
      <3>4. n - 1 \in DOMAIN z[e] /\ Carries(z[e][n - 1], kind, o)
        BY <1>2, <2>1, <2>3, <3>2, <3>3
      <3>5. <<e, n - 1>> \in Z /\ F[<<e, n - 1>>] = <<e, (n - 1) + 1>>
        BY <1>0, <1>5, <1>6, <3>4
      <3> QED BY <2>1, <2>3, <3>2, <3>5
    <2> QED BY <2>2, <2>3
  <1> HIDE DEF F, T
  <1>11. IsFiniteSet(T) /\ Cardinality(T) = Cardinality(Z)
    BY <1>4, <1>8, <1>9, <1>10, OneToOne
  <1>12. <<e, 1>> \in S <=> Carries(Head(s[e]), kind, o)
    <2>1. 1 \in DOMAIN s[e]
      BY <1>2
    <2>2. \A f, n : <<f, n>> = <<e, 1>> => f = e /\ n = 1
      OBVIOUS
    <2> QED BY <1>0, <1>2, <1>5, <2>1, <2>2
  <1>13. Cardinality(T) = IF <<e, 1>> \in S THEN Cardinality(S) - 1 ELSE Cardinality(S)
    BY <1>4, FS_RemoveElement DEF T
  <1>14. Cardinality(S) = Cardinality(Z) + One(Carries(Head(s[e]), kind, o))
    BY <1>4, <1>11, <1>12, <1>13 DEF One
  <1> QED BY <1>14 DEF S, Z

\* One more item.
LEMMA PlacesAppended ==
  ASSUME NEW q \in Seq(ItemType), NEW item \in ItemType, NEW kind, NEW o
  PROVE  /\ Append(q, item) \in Seq(ItemType)
         /\ Cardinality(Places(Append(q, item), kind, o))
              = Cardinality(Places(q, kind, o)) + One(Carries(item, kind, o))
  <1> DEFINE z == Append(q, item)
             L == Len(q)
  <1>1. /\ z \in Seq(ItemType) /\ L \in Nat /\ DOMAIN q = 1 .. L /\ DOMAIN z = 1 .. (L + 1)
        /\ \A n \in 1 .. L : z[n] = q[n]
        /\ z[L + 1] = item
    OBVIOUS
  <1> HIDE DEF z, L
  <1>2. /\ IsFiniteSet(Places(q, kind, o)) /\ Cardinality(Places(q, kind, o)) \in Nat
    BY PlacesFinite
  <1>3. /\ \A n : n \in Places(q, kind, o) <=> n \in 1 .. L /\ Carries(q[n], kind, o)
        /\ \A n : n \in Places(z, kind, o) <=> n \in 1 .. (L + 1) /\ Carries(z[n], kind, o)
    BY <1>1 DEF Places, Carries
  <1>4. /\ \A n : n \in 1 .. (L + 1) <=> n \in 1 .. L \/ n = L + 1
        /\ L + 1 \notin 1 .. L
    BY <1>1
  <1>5. CASE Carries(item, kind, o)
    <2>1. /\ Places(z, kind, o) = Places(q, kind, o) \cup {L + 1}
          /\ L + 1 \notin Places(q, kind, o)
      BY <1>1, <1>3, <1>4, <1>5
    <2>2. Cardinality(Places(z, kind, o)) = Cardinality(Places(q, kind, o)) + 1
      BY <1>2, <2>1, FS_AddElement
    <2>3. One(Carries(item, kind, o)) = 1
      BY <1>5 DEF One
    <2> QED BY <1>1, <2>2, <2>3 DEF z
  <1>6. CASE ~Carries(item, kind, o)
    <2>1. Places(z, kind, o) = Places(q, kind, o)
      BY <1>1, <1>3, <1>4, <1>6
    <2>2. One(Carries(item, kind, o)) = 0
      BY <1>6 DEF One
    <2>3. Cardinality(Places(z, kind, o)) = Cardinality(Places(q, kind, o)) + 0
      BY <1>2, <2>1
    <2> QED BY <1>1, <2>2, <2>3 DEF z
  <1> QED BY <1>5, <1>6

\* The first item less.
LEMMA PlacesShortened ==
  ASSUME NEW q \in Seq(ItemType), q # <<>>, NEW kind, NEW o
  PROVE  /\ Tail(q) \in Seq(ItemType)
         /\ Cardinality(Places(q, kind, o))
              = Cardinality(Places(Tail(q), kind, o)) + One(Carries(Head(q), kind, o))
  <1> DEFINE z == Tail(q)
             S == Places(q, kind, o)
             Z == Places(z, kind, o)
             T == S \ {1}
             F == [n \in Z |-> n + 1]
  <1>1. /\ z \in Seq(ItemType) /\ Head(q) = q[1] /\ Len(q) \in Nat \ {0}
        /\ DOMAIN q = 1 .. Len(q) /\ DOMAIN z = 1 .. (Len(q) - 1)
        /\ \A n \in 1 .. (Len(q) - 1) : z[n] = q[n + 1]
    BY Shorten
  <1>2. /\ IsFiniteSet(S) /\ IsFiniteSet(Z) /\ Cardinality(S) \in Nat /\ Cardinality(Z) \in Nat
    BY <1>1, PlacesFinite
  <1> HIDE DEF z
  <1>3. /\ \A n : n \in S <=> n \in 1 .. Len(q) /\ Carries(q[n], kind, o)
        /\ \A n : n \in Z <=> n \in 1 .. (Len(q) - 1) /\ Carries(z[n], kind, o)
    BY <1>1 DEF Places, Carries
  <1> HIDE DEF S, Z
  <1>4. \A n \in Z : n \in Int /\ F[n] = n + 1 /\ F[n] \in T
    <2> SUFFICES ASSUME NEW n \in Z PROVE n \in Int /\ n + 1 \in T
      OBVIOUS
    <2>1. n \in 1 .. (Len(q) - 1) /\ Carries(q[n + 1], kind, o)
      BY <1>1, <1>3
    <2>2. n + 1 \in 1 .. Len(q) /\ n + 1 # 1 /\ n \in Int
      BY <1>1, <2>1
    <2> QED BY <1>3, <2>1, <2>2
  <1>5. F \in [Z -> T]
    BY <1>4
  <1>6. \A n, m \in Z : F[n] = F[m] => n = m
    BY <1>4
  <1>7. ASSUME NEW m \in T PROVE \E n \in Z : F[n] = m
    <2>1. m \in 1 .. Len(q) /\ m # 1 /\ Carries(q[m], kind, o)
      BY <1>3
    <2>2. m - 1 \in 1 .. (Len(q) - 1) /\ (m - 1) + 1 = m
      BY <1>1, <2>1
    <2>3. z[m - 1] = q[(m - 1) + 1]
      BY <1>1, <2>2, Zenon
    <2>4. m - 1 \in Z
      BY <1>3, <2>1, <2>2, <2>3
    <2> QED BY <1>4, <2>2, <2>4
  <1> HIDE DEF F, T
  <1>8. IsFiniteSet(T) /\ Cardinality(T) = Cardinality(Z)
    BY <1>2, <1>5, <1>6, <1>7, OneToOne
  <1>9. 1 \in S <=> Carries(Head(q), kind, o)
    <2>1. 1 \in 1 .. Len(q)
      BY <1>1
    <2> QED BY <1>1, <1>3, <2>1
  <1>10. Cardinality(T) = IF 1 \in S THEN Cardinality(S) - 1 ELSE Cardinality(S)
    BY <1>2, FS_RemoveElement DEF T
  <1>11. Cardinality(S) = Cardinality(Z) + One(Carries(Head(q), kind, o))
    BY <1>2, <1>8, <1>9, <1>10 DEF One
  <1> QED BY <1>1, <1>11 DEF S, Z, z

\* The counts of a state are numbers.
LEMMA AwaitsNat ==
  ASSUME DeviceTyped, NEW kind, NEW o
  PROVE  /\ Awaits(kind, o) \in Nat
         /\ Awaits(kind, o) = Cardinality(Pairs(stream, kind, o)) + Cardinality(Places(callbacks, kind, o))
         /\ Cardinality(Pairs(stream, kind, o)) \in Nat /\ Cardinality(Places(callbacks, kind, o)) \in Nat
  <1>1. Awaits(kind, o) = Cardinality(Pairs(stream, kind, o)) + Cardinality(Places(callbacks, kind, o))
    BY DEF Awaits, Enqueued, HandedOver, Pairs, Places
  <1>2. Cardinality(Pairs(stream, kind, o)) \in Nat /\ Cardinality(Places(callbacks, kind, o)) \in Nat
    BY PairsFinite, PlacesFinite DEF DeviceTyped
  <1> QED BY <1>1, <1>2

\* A step that leaves streams and callbacks alone leaves the counts alone.
LEMMA AwaitsLeftAlone ==
  ASSUME UNCHANGED <<stream, callbacks>>, NEW kind, NEW o
  PROVE  Awaits(kind, o)' = Awaits(kind, o)
  BY DEF Awaits, Enqueued, HandedOver

\* What is enqueued is awaited.
LEMMA AwaitsEnqueued ==
  ASSUME DeviceTyped, NEW e \in Entry, NEW items \in Seq(ItemType), Enqueue(e, items),
         UNCHANGED callbacks, NEW kind, NEW o
  PROVE  /\ (\A p \in 1 .. Len(items) : ~Carries(items[p], kind, o)) => Awaits(kind, o)' = Awaits(kind, o)
         /\ \A p \in 1 .. Len(items) :
              Carries(items[p], kind, o) /\ (\A q \in 1 .. Len(items) : Carries(items[q], kind, o) => q = p)
              => Awaits(kind, o)' = Awaits(kind, o) + 1
  <1>1. /\ stream \in [Entry -> Seq(ItemType)]
        /\ Extended(stream, e, items, stream')
    BY DEF DeviceTyped, Enqueue, Extended
  <1>2. Awaits(kind, o)' = Cardinality(Pairs(stream', kind, o)) + Cardinality(Places(callbacks, kind, o))
    BY DEF Awaits, Enqueued, HandedOver, Pairs, Places
  <1>3. /\ Awaits(kind, o) = Cardinality(Pairs(stream, kind, o)) + Cardinality(Places(callbacks, kind, o))
        /\ IsFiniteSet(Pairs(stream, kind, o))
        /\ Cardinality(Pairs(stream, kind, o)) \in Nat /\ Cardinality(Places(callbacks, kind, o)) \in Nat
    BY <1>1, AwaitsNat, PairsFinite
  <1>4. (\A p \in 1 .. Len(items) : ~Carries(items[p], kind, o)) => Awaits(kind, o)' = Awaits(kind, o)
    <2> SUFFICES ASSUME \A p \in 1 .. Len(items) : ~Carries(items[p], kind, o)
                 PROVE  Awaits(kind, o)' = Awaits(kind, o)
      OBVIOUS
    <2>1. Pairs(stream', kind, o) = Pairs(stream, kind, o)
      BY <1>1, PairsExtended
    <2> QED BY <1>2, <1>3, <2>1
  <1>5. ASSUME NEW p \in 1 .. Len(items), Carries(items[p], kind, o),
               \A q \in 1 .. Len(items) : Carries(items[q], kind, o) => q = p
        PROVE  Awaits(kind, o)' = Awaits(kind, o) + 1
    <2> DEFINE x == <<e, Len(stream[e]) + p>>
    <2>1. Pairs(stream', kind, o) = Pairs(stream, kind, o) \cup {x} /\ x \notin Pairs(stream, kind, o)
      BY <1>1, <1>5, PairsExtended
    <2> HIDE DEF x
    <2>2. Cardinality(Pairs(stream', kind, o)) = Cardinality(Pairs(stream, kind, o)) + 1
      BY <1>3, <2>1, FS_AddElement
    <2> QED BY <1>2, <1>3, <2>2
  <1> QED BY <1>4, <1>5

\* A callback of a stream is handed over; nothing else was awaited.
LEMMA AwaitsRun ==
  ASSUME DeviceTyped, NEW e \in Entry, RunStream(e), NEW kind \in {"finishWrite", "finishRead"}, NEW o
  PROVE  Awaits(kind, o)' = Awaits(kind, o)
  <1> DEFINE item == Head(stream[e])
             c == Places(callbacks, kind, o)
  <1>1. /\ stream \in [Entry -> Seq(ItemType)] /\ callbacks \in Seq(ItemType)
        /\ stream[e] # <<>> /\ stream' = [stream EXCEPT ![e] = Tail(@)]
    BY DEF DeviceTyped, RunStream, PassWait, RunSave, RunOn, RunCallback, Runs
  <1>z. /\ stream'[e] = Tail(stream[e]) /\ \A f \in Entry \ {e} : stream'[f] = stream[f]
        /\ stream' \in [Entry -> Seq(ItemType)]
    <2>1. stream[e] \in Seq(ItemType)
      BY <1>1
    <2>2. Tail(stream[e]) \in Seq(ItemType)
      BY <1>1, <2>1
    <2> QED BY <1>1, <2>2
  <1>s. Shortened(stream, e, stream')
    BY <1>1, <1>z DEF Shortened
  <1>2. /\ Awaits(kind, o) = Cardinality(Pairs(stream, kind, o)) + Cardinality(c)
        /\ Cardinality(Pairs(stream, kind, o)) \in Nat /\ Cardinality(c) \in Nat
    BY AwaitsNat
  <1>3. Awaits(kind, o)' = Cardinality(Pairs(stream', kind, o)) + Cardinality(Places(callbacks', kind, o))
    BY DEF Awaits, Enqueued, HandedOver, Pairs, Places
  <1>4. Cardinality(Pairs(stream, kind, o))
           = Cardinality(Pairs(stream', kind, o)) + One(Carries(item, kind, o))
    BY <1>s, PairsShortened
  <1>5. Cardinality(Pairs(stream', kind, o)) \in Nat
    BY <1>z, PairsFinite
  <1>6. Cardinality(Places(callbacks', kind, o)) = Cardinality(c) + One(Carries(item, kind, o))
    <2>1. CASE RunCallback(e)
      <3>1. stream[e] \in Seq(ItemType)
        BY <1>1
      <3>2. item \in ItemType
        BY <1>1, <3>1, Shorten
      <3> HIDE DEF item
      <3>3. callbacks' = Append(callbacks, item)
        BY <2>1 DEF RunCallback, item
      <3> QED BY <1>1, <3>2, <3>3, PlacesAppended
    <2>2. CASE ~RunCallback(e)
      <3>1. callbacks' = callbacks /\ item.kind \notin {"finishWrite", "finishRead"}
        BY <2>2 DEF RunStream, PassWait, RunSave, RunOn, Runs
      <3>2. One(Carries(item, kind, o)) = 0
        BY <3>1 DEF One, Carries
      <3> QED BY <1>2, <3>1, <3>2
    <2> QED BY <2>1, <2>2
  <1>7. One(Carries(item, kind, o)) \in Nat
    BY DEF One
  <1> HIDE DEF c, item
  <1> QED BY <1>2, <1>3, <1>4, <1>5, <1>6, <1>7

\* The dispatcher has one callback less to run.
LEMMA AwaitsDispatched ==
  ASSUME DeviceTyped, Dispatch, NEW kind, NEW o
  PROVE  /\ Awaits(kind, o) = Awaits(kind, o)' + One(Carries(Head(callbacks), kind, o))
         /\ Awaits(kind, o)' \in Nat
  <1>1. /\ callbacks \in Seq(ItemType) /\ callbacks # <<>> /\ callbacks' = Tail(callbacks)
        /\ stream' = stream
    BY DEF DeviceTyped, Dispatch
  <1>2. /\ Awaits(kind, o) = Cardinality(Pairs(stream, kind, o)) + Cardinality(Places(callbacks, kind, o))
        /\ Cardinality(Pairs(stream, kind, o)) \in Nat
    BY AwaitsNat
  <1>3. Awaits(kind, o)' = Cardinality(Pairs(stream, kind, o)) + Cardinality(Places(Tail(callbacks), kind, o))
    BY <1>1 DEF Awaits, Enqueued, HandedOver, Pairs, Places
  <1>4. /\ Cardinality(Places(callbacks, kind, o))
             = Cardinality(Places(Tail(callbacks), kind, o)) + One(Carries(Head(callbacks), kind, o))
        /\ Tail(callbacks) \in Seq(ItemType)
    BY <1>1, PlacesShortened
  <1>5. Cardinality(Places(Tail(callbacks), kind, o)) \in Nat
    BY <1>4, PlacesFinite
  <1>6. One(Carries(Head(callbacks), kind, o)) \in Nat
    BY DEF One
  <1> QED BY <1>2, <1>3, <1>4, <1>5, <1>6

\* Items of another kind are not awaited.
LEMMA AwaitsOther ==
  ASSUME DeviceTyped, NEW e \in Entry, NEW items \in Seq(ItemType), Enqueue(e, items),
         UNCHANGED callbacks, NEW kind, NEW o,
         \A p \in 1 .. Len(items) : items[p].kind # kind
  PROVE  Awaits(kind, o)' = Awaits(kind, o)
  <1>1. \A p \in 1 .. Len(items) : ~Carries(items[p], kind, o)
    BY DEF Carries
  <1> QED BY <1>1, AwaitsEnqueued

\* Copies of a group are of the kind they are asked for.
LEMMA AwaitsCopies ==
  ASSUME DeviceTyped, NEW e \in Entry, NEW t \in Task, NEW objs \in SUBSET ObjectKey,
         NEW copies \in {"wait", "save", "load", "event"}, UNCHANGED callbacks,
         Enqueue(e, Copies(copies, t, objs)) \/ Enqueue(e, <<Item(copies, t, objs)>>),
         NEW kind \in {"finishWrite", "finishRead"}, NEW o
  PROVE  Awaits(kind, o)' = Awaits(kind, o)
  <1> DEFINE item == Item(copies, t, objs)
  <1>1. copies \in ItemKind
    BY DEF ItemKind
  <1>2. Copies(copies, t, objs) \in Seq(ItemType) /\ <<item>> \in Seq(ItemType) /\ item \in ItemType
    BY <1>1, CopiesTyped
  <1>3. item.kind # kind
    BY DEF Item
  <1> HIDE DEF item
  <1>4. \A p \in 1 .. Len(<<item>>) : <<item>>[p].kind # kind
    BY <1>3
  <1>5. Copies(copies, t, objs) = <<item>> \/ Copies(copies, t, objs) = <<>>
    BY DEF Copies, NoItems, item
  <1>6. \A p \in 1 .. Len(<<>>) : <<>>[p].kind # kind
    OBVIOUS
  <1>7. \A p \in 1 .. Len(Copies(copies, t, objs)) : Copies(copies, t, objs)[p].kind # kind
    BY <1>4, <1>5, <1>6
  <1>8. \A items \in Seq(ItemType) :
           Enqueue(e, items) /\ (\A p \in 1 .. Len(items) : items[p].kind # kind) =>
               Awaits(kind, o)' = Awaits(kind, o)
    BY AwaitsOther
  <1>9. Enqueue(e, <<item>>) \/ Enqueue(e, Copies(copies, t, objs))
    BY DEF item
  <1> DEFINE one == <<item>>
             copied == Copies(copies, t, objs)
  <1>10. /\ one \in Seq(ItemType) /\ \A p \in 1 .. Len(one) : one[p].kind # kind
         /\ copied \in Seq(ItemType) /\ \A p \in 1 .. Len(copied) : copied[p].kind # kind
         /\ Enqueue(e, one) \/ Enqueue(e, copied)
    BY <1>2, <1>4, <1>7, <1>9
  <1> HIDE DEF one, copied
  <1> QED BY <1>8, <1>10

\* An event with a callback behind it.
LEMMA AwaitsSecond ==
  ASSUME DeviceTyped, NEW e \in Entry, NEW t \in Task, NEW objs \in SUBSET ObjectKey,
         NEW back \in {"finishWrite", "finishRead"}, UNCHANGED callbacks,
         Enqueue(e, <<Item("event", t, {}), Item(back, t, objs)>>),
         NEW kind \in {"finishWrite", "finishRead"}, NEW o
  PROVE  /\ kind = back /\ o \in objs => Awaits(kind, o)' = Awaits(kind, o) + 1
         /\ kind # back \/ o \notin objs => Awaits(kind, o)' = Awaits(kind, o)
  <1> DEFINE a == Item("event", t, {})
             b == Item(back, t, objs)
             items == <<a, b>>
  <1>1. a \in ItemType /\ b \in ItemType
    BY DEF Item, ItemType, ItemKind
  <1>2. ~Carries(a, kind, o) /\ (Carries(b, kind, o) <=> kind = back /\ o \in objs)
    BY DEF Item, Carries
  <1> HIDE DEF a, b
  <1>3. items \in Seq(ItemType) /\ Len(items) = 2 /\ items[1] = a /\ items[2] = b
    BY <1>1
  <1>4. Enqueue(e, items)
    BY DEF a, b
  <1> HIDE DEF items
  <1>5. CASE kind = back /\ o \in objs
    <2>1. 2 \in 1 .. Len(items) /\ Carries(items[2], kind, o)
          /\ \A q \in 1 .. Len(items) : Carries(items[q], kind, o) => q = 2
      BY <1>2, <1>3, <1>5
    <2>2. \A p \in 1 .. Len(items) :
            Carries(items[p], kind, o) /\ (\A q \in 1 .. Len(items) : Carries(items[q], kind, o) => q = p)
            => Awaits(kind, o)' = Awaits(kind, o) + 1
      BY <1>3, <1>4, AwaitsEnqueued
    <2>3. Awaits(kind, o)' = Awaits(kind, o) + 1
      BY <2>1, <2>2
    <2> QED BY <1>5, <2>3
  <1>6. CASE ~(kind = back /\ o \in objs)
    <2>1. \A q \in 1 .. Len(items) : ~Carries(items[q], kind, o)
      BY <1>2, <1>3, <1>6
    <2>2. Awaits(kind, o)' = Awaits(kind, o)
      BY <1>3, <1>4, <2>1, AwaitsEnqueued
    <2> QED BY <1>6, <2>2
  <1> QED BY <1>5, <1>6

-----------------------------------------------------------------------------
(* Write locks.                                                            *)

Reserving(o) == {t \in StoreTask : o \in acc[t]}

\* The owners of the write lock on an object are counted one by one.
LEMMA WriteCounts ==
  ASSUME DeviceTyped
  PROVE  /\ WriteLocksOwned <=> \A o \in ObjectKey :
              One(obj[o] = "writing")
                = One(o \in abandoned) + Cardinality(Reserving(o)) + Awaits("finishWrite", o)
         /\ \A o : IsFiniteSet(Reserving(o)) /\ Cardinality(Reserving(o)) \in Nat
         /\ \A o : Awaits("finishWrite", o) \in Nat
  <1>1. \A o : Reserving(o) \in SUBSET Task
    BY DEF Reserving, StoreTask
  <1>2. \A o : IsFiniteSet(Reserving(o)) /\ Cardinality(Reserving(o)) \in Nat
    BY <1>1, FinitelyMany
  <1>3. ASSUME NEW o
        PROVE  /\ Awaits("finishWrite", o)
                    = Cardinality(Enqueued("finishWrite", o)) + Cardinality(HandedOver("finishWrite", o))
               /\ Cardinality(Enqueued("finishWrite", o)) \in Nat
               /\ Cardinality(HandedOver("finishWrite", o)) \in Nat
    <2>1. Enqueued("finishWrite", o) = Pairs(stream, "finishWrite", o)
      BY DEF Enqueued, Pairs
    <2>2. HandedOver("finishWrite", o) = Places(callbacks, "finishWrite", o)
      BY DEF HandedOver, Places
    <2>3. /\ Cardinality(Pairs(stream, "finishWrite", o)) \in Nat
          /\ Cardinality(Places(callbacks, "finishWrite", o)) \in Nat
      BY PairsFinite, PlacesFinite DEF DeviceTyped
    <2>4. Awaits("finishWrite", o)
            = Cardinality(Enqueued("finishWrite", o)) + Cardinality(HandedOver("finishWrite", o))
      BY DEF Awaits
    <2> QED BY <2>1, <2>2, <2>3, <2>4
  <1>4. \A o : One(o \in abandoned) \in Nat
    BY DEF One
  <1>5. WriteLocksOwned <=> \A o \in ObjectKey :
              One(obj[o] = "writing")
                = One(o \in abandoned) + Cardinality(Reserving(o))
                  + Cardinality(Enqueued("finishWrite", o)) + Cardinality(HandedOver("finishWrite", o))
    BY DEF WriteLocksOwned, One, Reserving
  <1>6. ASSUME NEW o
        PROVE  One(o \in abandoned) + Cardinality(Reserving(o))
                  + Cardinality(Enqueued("finishWrite", o)) + Cardinality(HandedOver("finishWrite", o))
               = One(o \in abandoned) + Cardinality(Reserving(o)) + Awaits("finishWrite", o)
    BY <1>2, <1>3, <1>4
  <1> QED BY <1>2, <1>3, <1>5, <1>6

\* The same after a step.
LEMMA WriteCountsAfter ==
  ASSUME DeviceTyped'
  PROVE  /\ WriteLocksOwned' <=> \A o \in ObjectKey :
              One(obj'[o] = "writing")
                = One(o \in abandoned') + Cardinality(Reserving(o)') + Awaits("finishWrite", o)'
         /\ \A o : IsFiniteSet(Reserving(o)') /\ Cardinality(Reserving(o)') \in Nat
         /\ \A o : Awaits("finishWrite", o)' \in Nat
  <1>1. \A o : Reserving(o)' \in SUBSET Task
    BY DEF Reserving, StoreTask
  <1>2. \A o : IsFiniteSet(Reserving(o)') /\ Cardinality(Reserving(o)') \in Nat
    BY <1>1, FinitelyMany
  <1>3. ASSUME NEW o
        PROVE  /\ Awaits("finishWrite", o)'
                    = Cardinality(Enqueued("finishWrite", o)') + Cardinality(HandedOver("finishWrite", o)')
               /\ Cardinality(Enqueued("finishWrite", o)') \in Nat
               /\ Cardinality(HandedOver("finishWrite", o)') \in Nat
    <2>1. Enqueued("finishWrite", o)' = Pairs(stream', "finishWrite", o)
      BY DEF Enqueued, Pairs
    <2>2. HandedOver("finishWrite", o)' = Places(callbacks', "finishWrite", o)
      BY DEF HandedOver, Places
    <2>3. /\ Cardinality(Pairs(stream', "finishWrite", o)) \in Nat
          /\ Cardinality(Places(callbacks', "finishWrite", o)) \in Nat
      BY PairsFinite, PlacesFinite DEF DeviceTyped
    <2>4. Awaits("finishWrite", o)'
            = Cardinality(Enqueued("finishWrite", o)') + Cardinality(HandedOver("finishWrite", o)')
      BY DEF Awaits
    <2> QED BY <2>1, <2>2, <2>3, <2>4
  <1>4. \A o : One(o \in abandoned') \in Nat
    BY DEF One
  <1>5. WriteLocksOwned' <=> \A o \in ObjectKey :
              One(obj'[o] = "writing")
                = One(o \in abandoned') + Cardinality(Reserving(o)')
                  + Cardinality(Enqueued("finishWrite", o)') + Cardinality(HandedOver("finishWrite", o)')
    BY DEF WriteLocksOwned, One, Reserving
  <1>6. ASSUME NEW o
        PROVE  One(o \in abandoned') + Cardinality(Reserving(o)')
                  + Cardinality(Enqueued("finishWrite", o)') + Cardinality(HandedOver("finishWrite", o)')
               = One(o \in abandoned') + Cardinality(Reserving(o)') + Awaits("finishWrite", o)'
    BY <1>2, <1>3, <1>4
  <1> QED BY <1>2, <1>3, <1>5, <1>6

\* A step that neither takes nor gives a write lock.
LEMMA WritesLeftAlone ==
  ASSUME DeviceTyped, DeviceTyped', WriteLocksOwned, UNCHANGED abandoned,
         \A t \in StoreTask : acc'[t] = acc[t],
         \A o \in ObjectKey : /\ obj'[o] = "writing" <=> obj[o] = "writing"
                              /\ Awaits("finishWrite", o)' = Awaits("finishWrite", o)
  PROVE  WriteLocksOwned'
  <1> SUFFICES ASSUME NEW o \in ObjectKey
               PROVE  One(obj'[o] = "writing")
                        = One(o \in abandoned') + Cardinality(Reserving(o)') + Awaits("finishWrite", o)'
    BY WriteCountsAfter
  <1>1. Reserving(o)' = Reserving(o)
    BY DEF Reserving
  <1>2. One(obj'[o] = "writing") = One(obj[o] = "writing")
    BY DEF One
  <1>3. One(obj[o] = "writing")
          = One(o \in abandoned) + Cardinality(Reserving(o)) + Awaits("finishWrite", o)
    BY WriteCounts
  <1> QED BY <1>1, <1>2, <1>3

\* What changes if one store reserves, or lets go of, an object.
LEMMA ReservingChanges ==
  ASSUME NEW t \in StoreTask, \A u \in StoreTask \ {t} : acc'[u] = acc[u], NEW o
  PROVE  /\ Cardinality(Reserving(o)') + One(o \in acc[t]) = Cardinality(Reserving(o)) + One(o \in acc'[t])
         /\ Cardinality(Reserving(o)) \in Nat /\ Cardinality(Reserving(o)') \in Nat
         /\ o \in acc[t] => Cardinality(Reserving(o)) # 0
  <1>1. Reserving(o) \in SUBSET Task
    BY DEF Reserving, StoreTask
  <1>2. IsFiniteSet(Reserving(o))
    BY <1>1, FinitelyMany
  <1>3. Reserving(o) \ {t} = Reserving(o)' \ {t}
    BY DEF Reserving
  <1>4. /\ Cardinality(Reserving(o)') + One(t \in Reserving(o)) = Cardinality(Reserving(o)) + One(t \in Reserving(o)')
        /\ Cardinality(Reserving(o)) \in Nat /\ Cardinality(Reserving(o)') \in Nat
    BY <1>2, <1>3, OneElementDiffers
  <1>5. (t \in Reserving(o) <=> o \in acc[t]) /\ (t \in Reserving(o)' <=> o \in acc'[t])
    BY DEF Reserving
  <1>6. o \in acc[t] => Cardinality(Reserving(o)) # 0
    BY <1>2, <1>5, FS_EmptySet
  <1> QED BY <1>4, <1>5, <1>6

\* A store takes the write locks it is granted.
LEMMA ReservingOwned ==
  ASSUME Control, Control', Locked, WriteLocksOwned, NEW t \in Task, StoreGroup(t) \/ StoreRaises(t)
  PROVE  WriteLocksOwned'
  <1>1. DeviceTyped /\ DeviceTyped' /\ StorageTyped /\ TasksTyped /\ t \in StoreTask /\ entry[t] \in Entry
    BY TypedParts DEF Control, Handlers, Running, StoreGroup, StoreRaises
  <1>2. PICK given \in SUBSET ObjectKey : \E copied \in SUBSET given :
            /\ Granted(t, given)
            /\ acc' = [acc EXCEPT ![t] = @ \cup given]
            /\ Enqueue(entry[t], Copies("save", t, copied))
    BY DEF StoreGroup, StoreRaises
  <1>3. PICK copied \in SUBSET given : Enqueue(entry[t], Copies("save", t, copied))
    BY <1>2
  <1>4. UNCHANGED callbacks /\ UNCHANGED abandoned
    BY DEF StoreGroup, StoreRaises, ghostVars
  <1>5. copied \in SUBSET ObjectKey
    OBVIOUS
  <1>6. \A o : Awaits("finishWrite", o)' = Awaits("finishWrite", o)
    BY <1>1, <1>3, <1>4, <1>5, AwaitsCopies
  <1>7. /\ \A u \in StoreTask \ {t} : acc'[u] = acc[u]
        /\ acc'[t] = acc[t] \cup given
    BY <1>1, <1>2 DEF TasksTyped, StoreTask
  <1>8. \A o \in ObjectKey : /\ obj'[o] = IF o \in given THEN "writing" ELSE obj[o]
                             /\ o \in given => obj[o] = "absent"
    BY <1>2 DEF Granted, Reservable
  <1> SUFFICES ASSUME NEW o \in ObjectKey
               PROVE  One(obj'[o] = "writing")
                        = One(o \in abandoned') + Cardinality(Reserving(o)') + Awaits("finishWrite", o)'
    BY <1>1, WriteCountsAfter
  <1>9. /\ One(obj[o] = "writing")
             = One(o \in abandoned) + Cardinality(Reserving(o)) + Awaits("finishWrite", o)
        /\ Awaits("finishWrite", o) \in Nat
    BY <1>1, WriteCounts
  <1>10. /\ Cardinality(Reserving(o)') + One(o \in acc[t]) = Cardinality(Reserving(o)) + One(o \in acc'[t])
         /\ Cardinality(Reserving(o)) \in Nat /\ Cardinality(Reserving(o)') \in Nat
    BY <1>1, <1>7, ReservingChanges
  <1>11. CASE o \in given
    <2>1. obj[o] = "absent" /\ obj'[o] = "writing" /\ o \in acc'[t]
      BY <1>7, <1>8, <1>11
    <2>2. o \notin acc[t]
      BY <1>1, <2>1 DEF Locked
    <2>3. One(obj[o] = "writing") = 0 /\ One(obj'[o] = "writing") = 1
          /\ One(o \in acc[t]) = 0 /\ One(o \in acc'[t]) = 1 /\ One(o \in abandoned) \in Nat
      BY <2>1, <2>2 DEF One
    <2>4. One(o \in abandoned') = One(o \in abandoned)
      BY <1>4
    <2> QED BY <1>6, <1>9, <1>10, <2>3, <2>4
  <1>12. CASE o \notin given
    <2>1. obj'[o] = obj[o] /\ (o \in acc'[t] <=> o \in acc[t])
      BY <1>7, <1>8, <1>12
    <2>2. /\ One(obj'[o] = "writing") = One(obj[o] = "writing") /\ One(o \in acc'[t]) = One(o \in acc[t])
          /\ One(o \in acc[t]) \in Nat /\ One(o \in abandoned) \in Nat
      BY <2>1 DEF One
    <2>3. One(o \in abandoned') = One(o \in abandoned)
      BY <1>4
    <2> QED BY <1>6, <1>9, <1>10, <2>2, <2>3
  <1> QED BY <1>11, <1>12

\* A store hands its write locks to a callback, or leaves them.
LEMMA FinishingOwned ==
  ASSUME Control, Control', Locked, WriteLocksOwned, NEW t \in Task, FinishStore(t)
  PROVE  WriteLocksOwned'
  <1>1. /\ DeviceTyped /\ DeviceTyped' /\ StorageTyped /\ TasksTyped /\ t \in StoreTask /\ entry[t] \in Entry
        /\ acc[t] \in SUBSET ObjectKey
    BY TypedParts DEF Control, Handlers, Running, FinishStore, TasksTyped
  <1>2. /\ UNCHANGED callbacks /\ UNCHANGED obj /\ acc' = [acc EXCEPT ![t] = {}]
    BY DEF FinishStore, storageVars
  <1>3. (\A u \in StoreTask \ {t} : acc'[u] = acc[u]) /\ acc'[t] = {}
    BY <1>1, <1>2 DEF TasksTyped, StoreTask
  <1> SUFFICES ASSUME NEW o \in ObjectKey
               PROVE  One(obj'[o] = "writing")
                        = One(o \in abandoned') + Cardinality(Reserving(o)') + Awaits("finishWrite", o)'
    BY <1>1, WriteCountsAfter
  <1>4. /\ One(obj[o] = "writing")
             = One(o \in abandoned) + Cardinality(Reserving(o)) + Awaits("finishWrite", o)
        /\ Awaits("finishWrite", o) \in Nat
    BY <1>1, WriteCounts
  <1>5. /\ Cardinality(Reserving(o)') + One(o \in acc[t]) = Cardinality(Reserving(o)) + One(o \in acc'[t])
        /\ Cardinality(Reserving(o)) \in Nat /\ Cardinality(Reserving(o)') \in Nat
        /\ o \in acc[t] => Cardinality(Reserving(o)) # 0
    BY <1>1, <1>3, ReservingChanges
  <1>6. /\ One(o \in acc'[t]) = 0 /\ One(obj'[o] = "writing") = One(obj[o] = "writing")
        /\ One(o \in acc[t]) \in Nat /\ One(o \in abandoned) \in Nat /\ One(o \in abandoned') \in Nat
        /\ One(obj[o] = "writing") \in 0 .. 1
    BY <1>2, <1>3 DEF One
  <1>7. /\ One(o \in abandoned') + Awaits("finishWrite", o)'
             = One(o \in abandoned) + Awaits("finishWrite", o) + One(o \in acc[t])
        /\ Awaits("finishWrite", o)' \in Nat
    <2>1. CASE ok[t] /\ acc[t] # {}
      <3>1. /\ Enqueue(entry[t], <<Item("event", t, {}), Item("finishWrite", t, acc[t])>>)
            /\ UNCHANGED abandoned
        BY <2>1 DEF FinishStore
      <3>2. /\ o \in acc[t] => Awaits("finishWrite", o)' = Awaits("finishWrite", o) + 1
            /\ o \notin acc[t] => Awaits("finishWrite", o)' = Awaits("finishWrite", o)
        BY <1>1, <1>2, <3>1, AwaitsSecond
      <3>3. (o \in acc[t] => One(o \in acc[t]) = 1) /\ (o \notin acc[t] => One(o \in acc[t]) = 0)
        BY DEF One
      <3>4. One(o \in abandoned') = One(o \in abandoned)
        BY <3>1
      <3> QED BY <1>4, <1>6, <3>2, <3>3, <3>4
    <2>2. CASE ~(ok[t] /\ acc[t] # {})
      <3>1. Enqueue(entry[t], <<Item("event", t, {})>>) /\ abandoned' = abandoned \cup acc[t]
        BY <2>2 DEF FinishStore
      <3>2. {} \in SUBSET ObjectKey
        OBVIOUS
      <3>3. Awaits("finishWrite", o)' = Awaits("finishWrite", o)
        BY <1>1, <1>2, <3>1, <3>2, AwaitsCopies
      <3>4. o \in acc[t] => o \notin abandoned
        <4>1. ASSUME o \in abandoned, o \in acc[t] PROVE FALSE
          <5>1. One(o \in abandoned) = 1 /\ Cardinality(Reserving(o)) # 0
            BY <1>5, <4>1 DEF One
          <5> QED BY <1>4, <1>5, <1>6, <5>1
        <4> QED BY <4>1
      <3>5. One(o \in abandoned') = One(o \in abandoned) + One(o \in acc[t])
        BY <3>1, <3>4 DEF One
      <3> QED BY <1>4, <1>6, <3>3, <3>5
    <2> QED BY <2>1, <2>2
  <1> QED BY <1>4, <1>5, <1>6, <1>7

\* The dispatcher gives write locks back.
LEMMA DispatchOwned ==
  ASSUME Control, Control', Locked, WriteLocksOwned, Dispatch
  PROVE  WriteLocksOwned'
  <1>1. DeviceTyped /\ DeviceTyped' /\ callbacks \in Seq(ItemType) /\ callbacks # <<>>
    BY TypedParts DEF Control, DeviceTyped, Dispatch
  <1>2. UNCHANGED acc /\ UNCHANGED abandoned
    BY DEF Dispatch, handlerVars, ghostVars
  <1>3. callbacks[1] = Head(callbacks) /\ 1 \in DOMAIN callbacks
    BY <1>1
  <1> SUFFICES ASSUME NEW o \in ObjectKey
               PROVE  One(obj'[o] = "writing")
                        = One(o \in abandoned') + Cardinality(Reserving(o)') + Awaits("finishWrite", o)'
    BY <1>1, WriteCountsAfter
  <1>4. /\ One(obj[o] = "writing")
             = One(o \in abandoned) + Cardinality(Reserving(o)) + Awaits("finishWrite", o)
        /\ Awaits("finishWrite", o) \in Nat /\ Cardinality(Reserving(o)) \in Nat
    BY <1>1, WriteCounts
  <1>5. /\ Awaits("finishWrite", o)
             = Awaits("finishWrite", o)' + One(Carries(Head(callbacks), "finishWrite", o))
        /\ Awaits("finishWrite", o)' \in Nat
    BY <1>1, AwaitsDispatched
  <1>6. Reserving(o)' = Reserving(o) /\ One(o \in abandoned') = One(o \in abandoned)
    BY <1>2 DEF Reserving
  <1>7. /\ obj'[o] = IF o \in Writes(callbacks[1]) THEN "readable" ELSE obj[o]
        /\ o \in Writes(callbacks[1]) => obj[o] = "writing"
    BY <1>3, DispatchFacts DEF Locked
  <1>8. Carries(Head(callbacks), "finishWrite", o) <=> o \in Writes(callbacks[1])
    BY <1>3 DEF Carries, Writes
  <1>9. One(obj[o] = "writing") = One(obj'[o] = "writing") + One(Carries(Head(callbacks), "finishWrite", o))
    BY <1>7, <1>8 DEF One
  <1>10. One(o \in abandoned) \in Nat /\ One(Carries(Head(callbacks), "finishWrite", o)) \in Nat
         /\ One(obj'[o] = "writing") \in Nat
    BY DEF One
  <1>11. Cardinality(Reserving(o)') = Cardinality(Reserving(o))
    BY <1>6
  <1> QED BY <1>4, <1>5, <1>6, <1>9, <1>10, <1>11

-----------------------------------------------------------------------------
(* Steps that have callbacks come, or not.                                 *)

\* A request that begins, or is turned away.
LEMMA ResolveAwaits ==
  ASSUME Control, NEW t \in Task, Resolve(t), NEW kind \in {"finishWrite", "finishRead"}, NEW o
  PROVE  Awaits(kind, o)' = Awaits(kind, o)
  <1>1. DeviceTyped /\ UNCHANGED callbacks /\ {} \in SUBSET ObjectKey
    BY TypedParts DEF Control, Resolve, NotRegistered, Malformed, Underflow, BeginStore,
       BeginRetrieve, deviceVars
  <1>2. CASE UNCHANGED stream
    BY <1>1, <1>2, AwaitsLeftAlone
  <1>3. CASE Underflow(t) \/ BeginStore(t)
    <2>1. contexts[InstanceOf[t]] \in Entry
      BY <1>3, ResolvedEntry DEF Control, Underflow, BeginStore, Resolved
    <2>2. PICK copies \in {"event", "wait"} :
            Enqueue(contexts[InstanceOf[t]], <<Item(copies, t, {})>>)
      BY <1>3 DEF Underflow, BeginStore
    <2>3. copies \in {"wait", "save", "load", "event"}
      OBVIOUS
    <2> QED BY <1>1, <2>1, <2>2, <2>3, AwaitsCopies
  <1> QED BY <1>2, <1>3 DEF Resolve, NotRegistered, Malformed, BeginRetrieve, deviceVars

\* A group that is loaded, or not.
LEMMA LoadingAwaits ==
  ASSUME Control, NEW t \in Task, ReadMisses(t) \/ LoadGroup(t) \/ LoadRaises(t),
         NEW kind \in {"finishWrite", "finishRead"}, NEW o
  PROVE  Awaits(kind, o)' = Awaits(kind, o)
  <1>1. /\ DeviceTyped /\ UNCHANGED callbacks /\ entry[t] \in Entry
        /\ Wanted(t) \in SUBSET ObjectKey
    BY TypedParts, ResolvedEntry DEF Control, Handlers, Running, ReadMisses, LoadGroup, LoadRaises, Found,
       deviceVars
  <1>2. CASE UNCHANGED stream
    BY <1>1, <1>2, AwaitsLeftAlone
  <1>3. CASE LoadGroup(t) \/ LoadRaises(t)
    <2>1. PICK copied \in SUBSET Wanted(t) : Enqueue(entry[t], Copies("load", t, copied))
      BY <1>3 DEF LoadGroup, LoadRaises
    <2>2. copied \in SUBSET ObjectKey /\ "load" \in {"wait", "save", "load", "event"}
      BY <1>1
    <2> QED BY <1>1, <2>1, <2>2, AwaitsCopies
  <1> QED BY <1>2, <1>3 DEF ReadMisses, deviceVars

\* The end of a retrieve.
LEMMA RetrievingAwaits ==
  ASSUME Control, NEW t \in Task, FinishRetrieve(t),
         NEW kind \in {"finishWrite", "finishRead"}, NEW o
  PROVE  /\ kind = "finishRead" /\ o \in acc[t] => Awaits(kind, o)' = Awaits(kind, o) + 1
         /\ kind # "finishRead" \/ o \notin acc[t] => Awaits(kind, o)' = Awaits(kind, o)
  <1>1. /\ DeviceTyped /\ UNCHANGED callbacks /\ entry[t] \in Entry
        /\ acc[t] \in SUBSET ObjectKey
    BY TypedParts DEF Control, Handlers, Running, FinishRetrieve, TasksTyped
  <1>2. Enqueue(entry[t], <<Item("event", t, {})>> \o Copies("finishRead", t, acc[t]))
    BY DEF FinishRetrieve
  <1>3. Item("event", t, {}) \in ItemType /\ Item("finishRead", t, acc[t]) \in ItemType
    BY <1>1 DEF Item, ItemType, ItemKind
  <1>4. CASE acc[t] = {}
    <2>1. Enqueue(entry[t], <<Item("event", t, {})>>)
      BY <1>2, <1>3, <1>4, Pair DEF Copies, NoItems
    <2>2. Awaits(kind, o)' = Awaits(kind, o)
      BY <1>1, <2>1, AwaitsCopies
    <2> QED BY <1>4, <2>2
  <1>5. CASE acc[t] # {}
    <2>1. Enqueue(entry[t], <<Item("event", t, {}), Item("finishRead", t, acc[t])>>)
      BY <1>2, <1>3, <1>5, Pair DEF Copies
    <2> QED BY <1>1, <2>1, AwaitsSecond
  <1> QED BY <1>4, <1>5

\* A store has no read lock given back.
LEMMA StoringAwaits ==
  ASSUME Control, NEW t \in Task, StoreGroup(t) \/ StoreRaises(t) \/ FinishStore(t), NEW o
  PROVE  Awaits("finishRead", o)' = Awaits("finishRead", o)
  <1>1. /\ DeviceTyped /\ UNCHANGED callbacks /\ entry[t] \in Entry
        /\ acc[t] \in SUBSET ObjectKey /\ {} \in SUBSET ObjectKey
    BY TypedParts DEF Control, Handlers, Running, StoreGroup, StoreRaises, FinishStore, TasksTyped
  <1>2. CASE StoreGroup(t) \/ StoreRaises(t)
    <2>1. PICK copied \in SUBSET ObjectKey : Enqueue(entry[t], Copies("save", t, copied))
      BY <1>2 DEF StoreGroup, StoreRaises
    <2> QED BY <1>1, <2>1, AwaitsCopies
  <1>3. CASE FinishStore(t) /\ Enqueue(entry[t], <<Item("event", t, {}), Item("finishWrite", t, acc[t])>>)
    BY <1>1, <1>3, AwaitsSecond
  <1>4. CASE FinishStore(t) /\ Enqueue(entry[t], <<Item("event", t, {})>>)
    BY <1>1, <1>4, AwaitsCopies
  <1> QED BY <1>2, <1>3, <1>4 DEF FinishStore

\* Every step keeps the count of the write locks.
LEMMA NextOwned == IInv /\ IInv' /\ WriteLocksOwned /\ [Next]_vars => WriteLocksOwned'
  <1> SUFFICES ASSUME IInv, IInv', WriteLocksOwned, [Next]_vars PROVE WriteLocksOwned'
    OBVIOUS
  <1>0. Control /\ Control' /\ Locked /\ DeviceTyped /\ DeviceTyped' /\ TasksTyped
    BY InvariantParts, TypedParts DEF Control, Content
  <1>1. ASSUME UNCHANGED <<obj, abandoned, stream, callbacks, acc>> PROVE WriteLocksOwned'
    <2>1. \A o : Awaits("finishWrite", o)' = Awaits("finishWrite", o)
      BY <1>1, AwaitsLeftAlone
    <2> QED BY <1>0, <1>1, <2>1, WritesLeftAlone
  <1>2. ASSUME NEW t \in Task, Worker(t) PROVE WriteLocksOwned'
    BY <1>1, <1>2 DEF Worker, SubmitStore, SubmitRetrieve, Send, EngineEvent, FutureDone, storageVars,
       handlerVars, deviceVars, ghostVars
  <1>3. ASSUME NEW t \in Task, Resolve(t) PROVE WriteLocksOwned'
    <2>1. UNCHANGED <<obj, abandoned, acc>>
      BY <1>3 DEF Resolve, NotRegistered, Malformed, Underflow, BeginStore, BeginRetrieve, storageVars,
         ghostVars
    <2>2. \A o : Awaits("finishWrite", o)' = Awaits("finishWrite", o)
      BY <1>0, <1>3, ResolveAwaits
    <2> QED BY <1>0, <2>1, <2>2, WritesLeftAlone
  <1>4. ASSUME NEW t \in Task, Handle(t) PROVE WriteLocksOwned'
    <2>1. CASE StoreGroup(t) \/ StoreRaises(t)
      BY <1>0, <2>1, ReservingOwned
    <2>2. CASE FinishStore(t)
      BY <1>0, <2>2, FinishingOwned
    <2>3. CASE ReadMisses(t) \/ LoadGroup(t) \/ LoadRaises(t) \/ FinishRetrieve(t)
      <3>1. t \in RetrieveTask /\ t \notin StoreTask
        BY <1>0, <2>3 DEF Control, Handlers, ReadMisses, LoadGroup, LoadRaises, Found, FinishRetrieve, StoreTask
      <3>2. \A u \in StoreTask : acc'[u] = acc[u]
        BY <1>0, <2>3, <3>1 DEF TasksTyped, StoreTask, ReadMisses, LoadGroup, LoadRaises, FinishRetrieve
      <3>3. UNCHANGED obj /\ UNCHANGED abandoned
        BY <2>3 DEF ReadMisses, LoadGroup, LoadRaises, FinishRetrieve, storageVars, ghostVars
      <3>4. \A o : Awaits("finishWrite", o)' = Awaits("finishWrite", o)
        <4>1. CASE FinishRetrieve(t)
          BY <1>0, <4>1, RetrievingAwaits
        <4>2. CASE ReadMisses(t) \/ LoadGroup(t) \/ LoadRaises(t)
          BY <1>0, <4>2, LoadingAwaits
        <4> QED BY <2>3, <4>1, <4>2
      <3> QED BY <1>0, <3>2, <3>3, <3>4, WritesLeftAlone
    <2> QED BY <1>4, <2>1, <2>2, <2>3 DEF Handle
  <1>5. CASE RegistryStep
    <2>1. UNCHANGED <<taskVars, handlerVars, stream, callbacks>>
          /\ (UNCHANGED <<obj, written>> \/ \E o \in ObjectKey : Unlocked(o) /\ Drop({o}))
      BY <1>5, RegistryFacts
    <2>2. UNCHANGED abandoned /\ UNCHANGED acc
      BY <1>5 DEF RegistryStep, Lifecycle, RegisterLayout, InsertEntry, Unregister, ReapStale, ReleaseEntry,
         Evict, aside, ghostVars, handlerVars
    <2>3. \A o \in ObjectKey : obj'[o] = "writing" <=> obj[o] = "writing"
      BY <2>1 DEF Unlocked, Drop
    <2>4. \A o : Awaits("finishWrite", o)' = Awaits("finishWrite", o)
      BY <2>1, AwaitsLeftAlone
    <2> QED BY <1>0, <2>2, <2>3, <2>4, WritesLeftAlone
  <1>6. ASSUME NEW e \in Entry, RunStream(e) PROVE WriteLocksOwned'
    <2>1. UNCHANGED <<obj, acc, abandoned>>
      BY <1>6 DEF RunStream, PassWait, RunSave, RunOn, RunCallback, storageVars, handlerVars, ghostVars
    <2>2. \A o : Awaits("finishWrite", o)' = Awaits("finishWrite", o)
      BY <1>0, <1>6, AwaitsRun
    <2> QED BY <1>0, <2>1, <2>2, WritesLeftAlone
  <1>7. CASE Dispatch
    BY <1>0, <1>7, DispatchOwned
  <1>8. CASE UNCHANGED vars
    BY <1>1, <1>8 DEF vars, storageVars, handlerVars, deviceVars, ghostVars
  <1> QED BY <1>2, <1>3, <1>4, <1>5, <1>6, <1>7, <1>8 DEF Next, RegistryStep

\* Nothing is locked, and nothing is to come, at the beginning.
LEMMA InitAwaits == Init => \A kind, o : Awaits(kind, o) = 0
  <1> SUFFICES ASSUME Init, NEW kind, NEW o PROVE Awaits(kind, o) = 0
    OBVIOUS
  <1>1. /\ \A e \in Entry : DOMAIN stream[e] = {}
        /\ DOMAIN callbacks = {}
    BY DEF Init
  <1>2. Pairs(stream, kind, o) = {}
    <2>1. \A x : x \notin Pairs(stream, kind, o)
      BY <1>1, PairsMembers
    <2> QED BY <2>1
  <1>3. Places(callbacks, kind, o) = {}
    BY <1>1 DEF Places
  <1>4. Awaits(kind, o) = Cardinality({}) + Cardinality({})
    BY <1>2, <1>3 DEF Awaits, Enqueued, HandedOver, Pairs, Places
  <1> QED BY <1>4, FS_EmptySet

LEMMA InitOwned == Init => WriteLocksOwned
  <1> SUFFICES ASSUME Init PROVE WriteLocksOwned
    OBVIOUS
  <1>1. DeviceTyped
    BY InitIInv, TypedParts DEF IInv
  <1>2. \A o : Reserving(o) = {}
    BY DEF Init, Reserving, StoreTask
  <1>3. \A o \in ObjectKey : One(obj[o] = "writing") = 0 /\ One(o \in abandoned) = 0
    BY DEF Init, One
  <1>4. \A o : Awaits("finishWrite", o) = 0
    BY InitAwaits
  <1>5. Cardinality({}) = 0
    BY FS_EmptySet
  <1> QED BY <1>1, <1>2, <1>3, <1>4, <1>5, WriteCounts

\* Every write lock has exactly one owner (WriteLocksOwned): no interleaving of
\* stores, streams and the dispatcher publishes an object that another store
\* reserves, and none is lost but with a store that raised.
THEOREM WriteLocksAreOwned == Spec => []WriteLocksOwned
  <1>1. IInv /\ IInv' /\ WriteLocksOwned /\ [Next]_vars => WriteLocksOwned'
    BY NextOwned
  <1> QED BY <1>1, InitOwned, Invariance, PTL DEF Spec

-----------------------------------------------------------------------------
(* Groups of a key.                                                        *)

\* The objects of the groups before group g, and behind it.
Early(k, g) == UNION {ObjKeys[k][h] : h \in 1 .. (g - 1)}
Late(k, g) == UNION {ObjKeys[k][h] : h \in (g + 1) .. NumGroups}

\* A group has no object of another, and all groups make up the key.
LEMMA GroupsApart ==
  ASSUME NEW k \in Key, NEW g \in Group
  PROVE  /\ Early(k, g) \cap ObjKeys[k][g] = {} /\ Early(k, g) \cap Late(k, g) = {}
         /\ ObjKeys[k][g] \cap Late(k, g) = {}
         /\ Objects(k) = Early(k, g) \cup ObjKeys[k][g] \cup Late(k, g)
         /\ Objects(k) \subseteq ObjectKey
  <1>0. NumGroups \in Nat /\ g \in Nat /\ g <= NumGroups /\ 1 <= g
    BY ConstantsAssumption DEF Group
  <1>1. /\ \A h \in 1 .. (g - 1) : h \in Group /\ h # g
        /\ \A h \in (g + 1) .. NumGroups : h \in Group /\ h # g
        /\ \A h \in 1 .. (g - 1) : \A i \in (g + 1) .. NumGroups : h # i
        /\ \A h \in Group : h \in 1 .. (g - 1) \/ h = g \/ h \in (g + 1) .. NumGroups
    BY <1>0 DEF Group
  <1>2. /\ \A h, i \in Group : h # i => ObjKeys[k][h] \cap ObjKeys[k][i] = {}
        /\ \A h \in Group : ObjKeys[k][h] \subseteq ObjectKey
    BY ConstantsAssumption
  <1>3. /\ \A x : x \in Early(k, g) <=> \E h \in 1 .. (g - 1) : x \in ObjKeys[k][h]
        /\ \A x : x \in Late(k, g) <=> \E h \in (g + 1) .. NumGroups : x \in ObjKeys[k][h]
        /\ \A x : x \in Objects(k) <=> \E h \in Group : x \in ObjKeys[k][h]
    BY DEF Early, Late, Objects
  <1>4. Early(k, g) \cap ObjKeys[k][g] = {} /\ ObjKeys[k][g] \cap Late(k, g) = {}
    BY <1>1, <1>2, <1>3
  <1>5. Early(k, g) \cap Late(k, g) = {}
    BY <1>1, <1>2, <1>3
  <1>6. Objects(k) = Early(k, g) \cup ObjKeys[k][g] \cup Late(k, g)
    BY <1>1, <1>3
  <1>7. Objects(k) \subseteq ObjectKey
    BY <1>2, <1>3
  <1> QED BY <1>4, <1>5, <1>6, <1>7

\* From one group to the next; the first and the last.
LEMMA GroupsInTurn ==
  ASSUME NEW k \in Key, NEW g \in Group
  PROVE  /\ Early(k, 1) = {} /\ 1 \in Group
         /\ g < NumGroups => /\ Early(k, g + 1) = Early(k, g) \cup ObjKeys[k][g]
                             /\ ObjKeys[k][g + 1] \cup Late(k, g + 1) = Late(k, g)
                             /\ g + 1 \in Group
         /\ ~(g < NumGroups) => Late(k, g) = {}
  <1>0. NumGroups \in Nat \ {0} /\ g \in Nat /\ g <= NumGroups /\ 1 <= g
    BY ConstantsAssumption DEF Group
  <1>3. /\ \A i, x : x \in Early(k, i) <=> \E h \in 1 .. (i - 1) : x \in ObjKeys[k][h]
        /\ \A i, x : x \in Late(k, i) <=> \E h \in (i + 1) .. NumGroups : x \in ObjKeys[k][h]
    BY DEF Early, Late
  <1>1. Early(k, 1) = {} /\ 1 \in Group
    <2>1. \A h : h \notin 1 .. (1 - 1)
      OBVIOUS
    <2> QED BY <1>0, <1>3, <2>1 DEF Group
  <1>2. ASSUME g < NumGroups
        PROVE  /\ Early(k, g + 1) = Early(k, g) \cup ObjKeys[k][g]
               /\ ObjKeys[k][g + 1] \cup Late(k, g + 1) = Late(k, g)
               /\ g + 1 \in Group
    <2>1. \A h : h \in 1 .. ((g + 1) - 1) <=> h \in 1 .. (g - 1) \/ h = g
      BY <1>0
    <2>2. \A h : h \in (g + 1) .. NumGroups <=> h = g + 1 \/ h \in ((g + 1) + 1) .. NumGroups
      BY <1>0, <1>2
    <2>3. g + 1 \in Group
      BY <1>0, <1>2 DEF Group
    <2>4. \A x : x \in Early(k, g + 1) <=> x \in Early(k, g) \/ x \in ObjKeys[k][g]
      BY <1>3, <2>1
    <2>5. \A x : x \in Late(k, g) <=> x \in ObjKeys[k][g + 1] \/ x \in Late(k, g + 1)
      BY <1>3, <2>2
    <2> QED BY <2>3, <2>4, <2>5
  <1>4. ASSUME ~(g < NumGroups) PROVE Late(k, g) = {}
    <2>1. \A h : h \notin (g + 1) .. NumGroups
      BY <1>0, <1>4
    <2> QED BY <1>3, <2>1
  <1> QED BY <1>1, <1>2, <1>4

-----------------------------------------------------------------------------
(* Read locks.                                                             *)

\* A retrieve is at the first group when it begins, and what it has loaded is
\* of the groups before the one it is at.
GroupsInOrder == \A t \in Task :
    /\ ~Running(t) => grp[t] = 1
    /\ hpc[t] = "load" => acc[t] \subseteq Early(key[t], grp[t])

\* The dispatcher is handed callbacks and nothing else.
CallbacksOnly == \A n \in DOMAIN callbacks : callbacks[n].kind \in {"finishWrite", "finishRead"}

\* The inductive invariant behind ReadLocksAccounted.
Reads ==
    /\ readers \in [ObjectKey -> Nat] /\ left \in [ObjectKey -> Nat]
    /\ GroupsInOrder
    /\ CallbacksOnly
    /\ ReadLocksAccounted

Holding(o) == {t \in RetrieveTask : o \in Holds(t)}

\* What a retrieve holds, by where it is.
LEMMA HoldsCases ==
  ASSUME NEW t
  PROVE  /\ hpc[t] = "queued" => Holds(t) = Objects(key[t])
         /\ hpc[t] = "load" => Holds(t) = acc[t] \cup ObjKeys[key[t]][grp[t]] \cup Late(key[t], grp[t])
         /\ hpc[t] = "finish" => Holds(t) = acc[t]
         /\ hpc[t] \in {"none", "store"} => Holds(t) = {}
         /\ hpc'[t] = "queued" => Holds(t)' = Objects(key'[t])
         /\ hpc'[t] = "load" => Holds(t)' = acc'[t] \cup ObjKeys[key'[t]][grp'[t]] \cup Late(key'[t], grp'[t])
         /\ hpc'[t] = "finish" => Holds(t)' = acc'[t]
         /\ hpc'[t] \in {"none", "store"} => Holds(t)' = {}
  BY DEF Holds, Wanted, Behind, Late

\* A task that a step leaves alone holds what it held.
LEMMA HoldsStay ==
  ASSUME NEW t, hpc'[t] = hpc[t], key'[t] = key[t], acc'[t] = acc[t], grp'[t] = grp[t]
  PROVE  Holds(t)' = Holds(t)
  BY DEF Holds, Wanted, Behind

\* The read locks on an object are counted one by one.
LEMMA ReadCounts ==
  ASSUME DeviceTyped, left \in [ObjectKey -> Nat]
  PROVE  /\ ReadLocksAccounted <=> \A o \in ObjectKey :
              readers[o] = left[o] + Cardinality(Holding(o)) + Awaits("finishRead", o)
         /\ \A o : IsFiniteSet(Holding(o)) /\ Cardinality(Holding(o)) \in Nat
         /\ \A o : Awaits("finishRead", o) \in Nat
  <1>1. \A o : Holding(o) \in SUBSET Task
    BY ConstantsAssumption DEF Holding
  <1>2. \A o : IsFiniteSet(Holding(o)) /\ Cardinality(Holding(o)) \in Nat
    BY <1>1, FinitelyMany
  <1>3. ASSUME NEW o
        PROVE  /\ Awaits("finishRead", o)
                    = Cardinality(Enqueued("finishRead", o)) + Cardinality(HandedOver("finishRead", o))
               /\ Cardinality(Enqueued("finishRead", o)) \in Nat
               /\ Cardinality(HandedOver("finishRead", o)) \in Nat
    <2>1. Enqueued("finishRead", o) = Pairs(stream, "finishRead", o)
      BY DEF Enqueued, Pairs
    <2>2. HandedOver("finishRead", o) = Places(callbacks, "finishRead", o)
      BY DEF HandedOver, Places
    <2>3. /\ Cardinality(Pairs(stream, "finishRead", o)) \in Nat
          /\ Cardinality(Places(callbacks, "finishRead", o)) \in Nat
      BY PairsFinite, PlacesFinite DEF DeviceTyped
    <2>4. Awaits("finishRead", o)
            = Cardinality(Enqueued("finishRead", o)) + Cardinality(HandedOver("finishRead", o))
      BY DEF Awaits
    <2> QED BY <2>1, <2>2, <2>3, <2>4
  <1>5. ReadLocksAccounted <=> \A o \in ObjectKey :
              readers[o] = left[o] + Cardinality(Holding(o))
                  + Cardinality(Enqueued("finishRead", o)) + Cardinality(HandedOver("finishRead", o))
    BY DEF ReadLocksAccounted, Holding
  <1>6. ASSUME NEW o \in ObjectKey
        PROVE  left[o] + Cardinality(Holding(o))
                  + Cardinality(Enqueued("finishRead", o)) + Cardinality(HandedOver("finishRead", o))
               = left[o] + Cardinality(Holding(o)) + Awaits("finishRead", o)
    <2>1. left[o] \in Nat
      OBVIOUS
    <2> QED BY <1>2, <1>3, <2>1
  <1> QED BY <1>2, <1>3, <1>5, <1>6

\* The same after a step.
LEMMA ReadCountsAfter ==
  ASSUME DeviceTyped', left' \in [ObjectKey -> Nat]
  PROVE  /\ ReadLocksAccounted' <=> \A o \in ObjectKey :
              readers'[o] = left'[o] + Cardinality(Holding(o)') + Awaits("finishRead", o)'
         /\ \A o : IsFiniteSet(Holding(o)') /\ Cardinality(Holding(o)') \in Nat
         /\ \A o : Awaits("finishRead", o)' \in Nat
  <1>1. \A o : Holding(o)' \in SUBSET Task
    BY ConstantsAssumption DEF Holding
  <1>2. \A o : IsFiniteSet(Holding(o)') /\ Cardinality(Holding(o)') \in Nat
    BY <1>1, FinitelyMany
  <1>3. ASSUME NEW o
        PROVE  /\ Awaits("finishRead", o)'
                    = Cardinality(Enqueued("finishRead", o)') + Cardinality(HandedOver("finishRead", o)')
               /\ Cardinality(Enqueued("finishRead", o)') \in Nat
               /\ Cardinality(HandedOver("finishRead", o)') \in Nat
    <2>1. Enqueued("finishRead", o)' = Pairs(stream', "finishRead", o)
      BY DEF Enqueued, Pairs
    <2>2. HandedOver("finishRead", o)' = Places(callbacks', "finishRead", o)
      BY DEF HandedOver, Places
    <2>3. /\ Cardinality(Pairs(stream', "finishRead", o)) \in Nat
          /\ Cardinality(Places(callbacks', "finishRead", o)) \in Nat
      BY PairsFinite, PlacesFinite DEF DeviceTyped
    <2>4. Awaits("finishRead", o)'
            = Cardinality(Enqueued("finishRead", o)') + Cardinality(HandedOver("finishRead", o)')
      BY DEF Awaits
    <2> QED BY <2>1, <2>2, <2>3, <2>4
  <1>5. ReadLocksAccounted' <=> \A o \in ObjectKey :
              readers'[o] = left'[o] + Cardinality(Holding(o)')
                  + Cardinality(Enqueued("finishRead", o)') + Cardinality(HandedOver("finishRead", o)')
    BY DEF ReadLocksAccounted, Holding
  <1>6. ASSUME NEW o \in ObjectKey
        PROVE  left'[o] + Cardinality(Holding(o)')
                  + Cardinality(Enqueued("finishRead", o)') + Cardinality(HandedOver("finishRead", o)')
               = left'[o] + Cardinality(Holding(o)') + Awaits("finishRead", o)'
    <2>1. left'[o] \in Nat
      OBVIOUS
    <2> QED BY <1>2, <1>3, <2>1
  <1> QED BY <1>2, <1>3, <1>5, <1>6

\* A step after which readers, holders and callbacks are what they were.
LEMMA ReadsLeftAlone ==
  ASSUME DeviceTyped, DeviceTyped', left \in [ObjectKey -> Nat], ReadLocksAccounted,
         UNCHANGED <<readers, left>>,
         \A t \in RetrieveTask : Holds(t)' = Holds(t),
         \A o \in ObjectKey : Awaits("finishRead", o)' = Awaits("finishRead", o)
  PROVE  ReadLocksAccounted'
  <1>1. left' \in [ObjectKey -> Nat]
    OBVIOUS
  <1> SUFFICES ASSUME NEW o \in ObjectKey
               PROVE  readers'[o] = left'[o] + Cardinality(Holding(o)') + Awaits("finishRead", o)'
    BY <1>1, ReadCountsAfter
  <1>2. Holding(o)' = Holding(o)
    BY DEF Holding
  <1>3. readers[o] = left[o] + Cardinality(Holding(o)) + Awaits("finishRead", o)
    BY ReadCounts
  <1> QED BY <1>2, <1>3

\* What changes if one retrieve takes, or lets go of, an object.
LEMMA HoldingChanges ==
  ASSUME NEW t \in RetrieveTask, \A u \in RetrieveTask \ {t} : Holds(u)' = Holds(u), NEW o
  PROVE  /\ Cardinality(Holding(o)') + One(o \in Holds(t)) = Cardinality(Holding(o)) + One(o \in Holds(t)')
         /\ Cardinality(Holding(o)) \in Nat /\ Cardinality(Holding(o)') \in Nat
         /\ o \in Holds(t) => Cardinality(Holding(o)) >= 1
  <1>1. Holding(o) \in SUBSET Task
    BY ConstantsAssumption DEF Holding
  <1>2. IsFiniteSet(Holding(o))
    BY <1>1, FinitelyMany
  <1>3. Holding(o) \ {t} = Holding(o)' \ {t}
    BY DEF Holding
  <1>4. /\ Cardinality(Holding(o)') + One(t \in Holding(o)) = Cardinality(Holding(o)) + One(t \in Holding(o)')
        /\ Cardinality(Holding(o)) \in Nat /\ Cardinality(Holding(o)') \in Nat
    BY <1>2, <1>3, OneElementDiffers
  <1>5. (t \in Holding(o) <=> o \in Holds(t)) /\ (t \in Holding(o)' <=> o \in Holds(t)')
    BY DEF Holding
  <1>6. o \in Holds(t) => Cardinality(Holding(o)) # 0
    BY <1>2, <1>5, FS_EmptySet
  <1> QED BY <1>4, <1>5, <1>6

\* A step that moves one read lock of a retrieve, object by object: taken with
\* it, left or given back with it, or awaited with it.
LEMMA ReadsMove ==
  ASSUME DeviceTyped, DeviceTyped', left \in [ObjectKey -> Nat], left' \in [ObjectKey -> Nat],
         readers \in [ObjectKey -> Nat], ReadLocksAccounted,
         NEW t \in RetrieveTask, \A u \in RetrieveTask \ {t} : Holds(u)' = Holds(u),
         \A o \in ObjectKey :
           \E taken, gone, lost, behind \in 0 .. 1 :
             /\ readers'[o] = readers[o] + taken - gone
             /\ left'[o] = left[o] + lost
             /\ Awaits("finishRead", o)' = Awaits("finishRead", o) + behind
             /\ One(o \in Holds(t)') = One(o \in Holds(t)) + taken - gone - lost - behind
  PROVE  ReadLocksAccounted'
  <1> SUFFICES ASSUME NEW o \in ObjectKey
               PROVE  readers'[o] = left'[o] + Cardinality(Holding(o)') + Awaits("finishRead", o)'
    BY ReadCountsAfter
  <1>1. PICK taken, gone, lost, behind \in 0 .. 1 :
             /\ readers'[o] = readers[o] + taken - gone
             /\ left'[o] = left[o] + lost
             /\ Awaits("finishRead", o)' = Awaits("finishRead", o) + behind
             /\ One(o \in Holds(t)') = One(o \in Holds(t)) + taken - gone - lost - behind
    OBVIOUS
  <1>2. /\ readers[o] = left[o] + Cardinality(Holding(o)) + Awaits("finishRead", o)
        /\ Awaits("finishRead", o) \in Nat
    BY ReadCounts
  <1>3. /\ Cardinality(Holding(o)') + One(o \in Holds(t)) = Cardinality(Holding(o)) + One(o \in Holds(t)')
        /\ Cardinality(Holding(o)) \in Nat /\ Cardinality(Holding(o)') \in Nat
    BY HoldingChanges
  <1>4. left[o] \in Nat /\ readers[o] \in Nat /\ One(o \in Holds(t)) \in Nat /\ One(o \in Holds(t)') \in Nat
    BY DEF One
  <1>5. taken \in Int /\ gone \in Int /\ lost \in Int /\ behind \in Int
    OBVIOUS
  <1> QED BY <1>1, <1>2, <1>3, <1>4, <1>5

\* Locks are numbers before and after.
LocksTyped == readers \in [ObjectKey -> Nat] /\ left \in [ObjectKey -> Nat]

\* Tasks other than the one that takes a step hold what they held.
LEMMA OthersHold ==
  ASSUME NEW t, \A u \in Task \ {t} : hpc'[u] = hpc[u] /\ key'[u] = key[u] /\ acc'[u] = acc[u] /\ grp'[u] = grp[u]
  PROVE  \A u \in RetrieveTask \ {t} : Holds(u)' = Holds(u)
  <1> SUFFICES ASSUME NEW u \in RetrieveTask \ {t} PROVE Holds(u)' = Holds(u)
    OBVIOUS
  <1>1. u \in Task \ {t}
    BY ConstantsAssumption
  <1> QED BY <1>1, HoldsStay

\* A worker's step: the lookup of a retrieve takes the locks.
LEMMA WorkerReads ==
  ASSUME Control, Control', LocksTyped, ReadLocksAccounted, NEW t \in Task, Worker(t)
  PROVE  LocksTyped' /\ ReadLocksAccounted'
  <1>1. DeviceTyped /\ DeviceTyped' /\ TasksTyped /\ left \in [ObjectKey -> Nat] /\ readers \in [ObjectKey -> Nat]
    BY TypedParts DEF Control, LocksTyped
  <1>2. UNCHANGED <<stream, callbacks, left>>
    BY DEF Worker, SubmitStore, SubmitRetrieve, Send, EngineEvent, FutureDone, deviceVars, ghostVars
  <1>3. \A o : Awaits("finishRead", o)' = Awaits("finishRead", o)
    BY <1>2, AwaitsLeftAlone
  <1>4. CASE (EngineEvent(t) \/ FutureDone(t))
    <2>1. UNCHANGED <<readers, hpc, key, acc, grp>>
      BY <1>4 DEF EngineEvent, FutureDone, storageVars, taskVars, handlerVars
    <2>2. \A u \in RetrieveTask : Holds(u)' = Holds(u)
      BY <2>1, HoldsStay
    <2> QED BY <1>1, <1>2, <1>3, <2>1, <2>2, ReadsLeftAlone DEF LocksTyped
  <1>5. ASSUME NEW k \in Key, SubmitStore(t, k) \/ SubmitRetrieve(t, k) PROVE LocksTyped' /\ ReadLocksAccounted'
    <2>1. /\ wpc[t] = "idle" /\ hpc' = [hpc EXCEPT ![t] = "queued"] /\ key' = [key EXCEPT ![t] = k]
          /\ UNCHANGED <<grp, acc>>
      BY <1>5 DEF SubmitStore, SubmitRetrieve, Send
    <2>2. hpc[t] = "none"
      BY <2>1 DEF Control, Handlers
    <2>3. /\ \A u \in Task \ {t} : hpc'[u] = hpc[u] /\ key'[u] = key[u] /\ acc'[u] = acc[u] /\ grp'[u] = grp[u]
          /\ hpc'[t] = "queued" /\ key'[t] = k
      BY <1>1, <2>1 DEF TasksTyped
    <2>4. \A u \in RetrieveTask \ {t} : Holds(u)' = Holds(u)
      BY <2>3, OthersHold
    <2>5. CASE SubmitStore(t, k)
      <3>1. t \notin RetrieveTask /\ UNCHANGED readers
        BY <2>5 DEF SubmitStore, StoreTask, storageVars
      <3> QED BY <1>1, <1>2, <1>3, <2>4, <3>1, ReadsLeftAlone DEF LocksTyped
    <2>6. CASE SubmitRetrieve(t, k)
      <3>1. t \in RetrieveTask /\ readers' = [o \in ObjectKey |-> IF o \in Objects(k) THEN readers[o] + 1 ELSE readers[o]]
        BY <2>6 DEF SubmitRetrieve, LockPrefetched
      <3>2. Holds(t) = {} /\ Holds(t)' = Objects(k)
        BY <2>2, <2>3, HoldsCases
      <3>3. \A o \in ObjectKey :
              \E taken, gone, lost, behind \in 0 .. 1 :
                /\ readers'[o] = readers[o] + taken - gone
                /\ left'[o] = left[o] + lost
                /\ Awaits("finishRead", o)' = Awaits("finishRead", o) + behind
                /\ One(o \in Holds(t)') = One(o \in Holds(t)) + taken - gone - lost - behind
        <4> SUFFICES ASSUME NEW o \in ObjectKey
                     PROVE  /\ readers'[o] = readers[o] + One(o \in Objects(k)) - 0
                            /\ left'[o] = left[o] + 0
                            /\ Awaits("finishRead", o)' = Awaits("finishRead", o) + 0
                            /\ One(o \in Holds(t)') = One(o \in Holds(t)) + One(o \in Objects(k)) - 0 - 0 - 0
                            /\ One(o \in Objects(k)) \in 0 .. 1
          OBVIOUS
        <4>1. Awaits("finishRead", o) \in Nat /\ left[o] \in Nat /\ readers[o] \in Nat
          BY <1>1, AwaitsNat
        <4>2. left'[o] = left[o] + 0 /\ Awaits("finishRead", o)' = Awaits("finishRead", o) + 0
          BY <1>2, <1>3, <4>1
        <4>3. readers'[o] = readers[o] + One(o \in Objects(k)) - 0 /\ One(o \in Objects(k)) \in 0 .. 1
          BY <3>1, <4>1 DEF One
        <4>4. One(o \in Holds(t)') = One(o \in Holds(t)) + One(o \in Objects(k)) - 0 - 0 - 0
          BY <3>2 DEF One
        <4> QED BY <4>2, <4>3, <4>4
      <3>4. readers' \in [ObjectKey -> Nat] /\ left' \in [ObjectKey -> Nat]
        BY <1>1, <1>2, <3>1
      <3>5. ReadLocksAccounted'
        BY <1>1, <2>4, <3>1, <3>3, <3>4, ReadsMove
      <3> QED BY <3>4, <3>5 DEF LocksTyped
    <2> QED BY <1>5, <2>5, <2>6
  <1> QED BY <1>4, <1>5 DEF Worker

\* A request that is turned away leaves the locks of its lookup.
LEMMA ResolveReads ==
  ASSUME Control, Control', LocksTyped, ReadLocksAccounted, GroupsInOrder, NEW t \in Task, Resolve(t)
  PROVE  LocksTyped' /\ ReadLocksAccounted'
  <1>1. DeviceTyped /\ DeviceTyped' /\ TasksTyped /\ left \in [ObjectKey -> Nat] /\ readers \in [ObjectKey -> Nat]
    BY TypedParts DEF Control, LocksTyped
  <1>2. hpc[t] = "queued" /\ UNCHANGED <<readers, key, acc>>
    BY DEF Resolve, NotRegistered, Malformed, Underflow, BeginStore, BeginRetrieve, Resolved, storageVars, taskVars
  <1>3. \A o : Awaits("finishRead", o)' = Awaits("finishRead", o)
    BY ResolveAwaits
  <1>4. acc[t] = {} /\ grp[t] = 1 /\ key[t] \in Key
    BY <1>1, <1>2 DEF Control, Handlers, Running, GroupsInOrder, TasksTyped
  <1>5. \A u \in Task \ {t} : hpc'[u] = hpc[u] /\ key'[u] = key[u] /\ acc'[u] = acc[u] /\ grp'[u] = grp[u]
    BY <1>1, <1>2 DEF TasksTyped, Resolve, NotRegistered, Malformed, Underflow, BeginStore, BeginRetrieve, Answer
  <1>6. \A u \in RetrieveTask \ {t} : Holds(u)' = Holds(u)
    BY <1>5, OthersHold
  <1>7. CASE t \in StoreTask
    <2>1. t \notin RetrieveTask /\ UNCHANGED left
      BY <1>7 DEF StoreTask, Resolve, NotRegistered, Malformed, Underflow, BeginStore, BeginRetrieve, LeaveAll, ghostVars
    <2> QED BY <1>1, <1>2, <1>3, <1>6, <2>1, ReadsLeftAlone DEF LocksTyped
  <1>8. CASE BeginRetrieve(t)
    <2>1. hpc'[t] = "load" /\ UNCHANGED left /\ grp' = grp
      BY <1>1, <1>8 DEF BeginRetrieve, TasksTyped, ghostVars
    <2>2. Objects(key[t]) = ObjKeys[key[t]][1] \cup Late(key[t], 1)
      <3>1. 1 \in Group
        BY ConstantsAssumption DEF Group
      <3>2. Early(key[t], 1) = {}
        BY <1>4, <3>1, GroupsInTurn
      <3>3. Objects(key[t]) = Early(key[t], 1) \cup ObjKeys[key[t]][1] \cup Late(key[t], 1)
        BY <1>4, <3>1, GroupsApart
      <3> QED BY <3>2, <3>3
    <2>3. Holds(t)' = Holds(t)
      <3>1. Holds(t) = Objects(key[t])
        BY <1>2, HoldsCases
      <3>2. Holds(t)' = acc'[t] \cup ObjKeys[key'[t]][grp'[t]] \cup Late(key'[t], grp'[t])
        BY <2>1, HoldsCases
      <3>3. acc'[t] = {} /\ key'[t] = key[t] /\ grp'[t] = 1
        BY <1>2, <1>4, <2>1
      <3> QED BY <2>2, <3>1, <3>2, <3>3
    <2> QED BY <1>1, <1>2, <1>3, <1>6, <2>1, <2>3, ReadsLeftAlone DEF LocksTyped
  <1>9. CASE t \in RetrieveTask /\ (NotRegistered(t) \/ Malformed(t) \/ Underflow(t))
    <2>1. /\ hpc'[t] = "none"
          /\ left' = [o \in ObjectKey |-> IF o \in Objects(key[t]) THEN left[o] + 1 ELSE left[o]]
      BY <1>1, <1>9 DEF NotRegistered, Malformed, Underflow, Answer, TasksTyped, LeaveAll, Leave
    <2>2. Holds(t) = Objects(key[t]) /\ Holds(t)' = {}
      BY <1>2, <2>1, HoldsCases
    <2>3. \A o \in ObjectKey :
            \E taken, gone, lost, behind \in 0 .. 1 :
              /\ readers'[o] = readers[o] + taken - gone
              /\ left'[o] = left[o] + lost
              /\ Awaits("finishRead", o)' = Awaits("finishRead", o) + behind
              /\ One(o \in Holds(t)') = One(o \in Holds(t)) + taken - gone - lost - behind
      <3> SUFFICES ASSUME NEW o \in ObjectKey
                   PROVE  /\ readers'[o] = readers[o] + 0 - 0
                          /\ left'[o] = left[o] + One(o \in Objects(key[t]))
                          /\ Awaits("finishRead", o)' = Awaits("finishRead", o) + 0
                          /\ One(o \in Holds(t)') = One(o \in Holds(t)) + 0 - 0 - One(o \in Objects(key[t])) - 0
                          /\ One(o \in Objects(key[t])) \in 0 .. 1
        OBVIOUS
      <3>1. Awaits("finishRead", o) \in Nat /\ left[o] \in Nat /\ readers[o] \in Nat
        BY <1>1, AwaitsNat
      <3>2. readers'[o] = readers[o] + 0 - 0 /\ Awaits("finishRead", o)' = Awaits("finishRead", o) + 0
        BY <1>2, <1>3, <3>1
      <3>3. left'[o] = left[o] + One(o \in Objects(key[t])) /\ One(o \in Objects(key[t])) \in 0 .. 1
        BY <2>1, <3>1 DEF One
      <3>4. One(o \in Holds(t)') = One(o \in Holds(t)) + 0 - 0 - One(o \in Objects(key[t])) - 0
        BY <2>2 DEF One
      <3> QED BY <3>2, <3>3, <3>4
    <2>4. readers' \in [ObjectKey -> Nat] /\ left' \in [ObjectKey -> Nat]
      BY <1>1, <1>2, <2>1
    <2>5. ReadLocksAccounted'
      BY <1>1, <1>6, <1>9, <2>3, <2>4, ReadsMove
    <2> QED BY <2>4, <2>5 DEF LocksTyped
  <1> QED BY <1>7, <1>8, <1>9 DEF Resolve, StoreTask, BeginStore

\* A group that is missing, or raises, has its locks given back; those of the
\* groups behind it are left.
LEMMA MissReads ==
  ASSUME Control, Control', LocksTyped, ReadLocksAccounted, GroupsInOrder, NEW t \in Task,
         ReadMisses(t) \/ LoadRaises(t)
  PROVE  LocksTyped' /\ ReadLocksAccounted'
  <1> DEFINE W == ObjKeys[key[t]][grp[t]]
             L == Late(key[t], grp[t])
  <1>1. DeviceTyped /\ DeviceTyped' /\ TasksTyped /\ left \in [ObjectKey -> Nat] /\ readers \in [ObjectKey -> Nat]
    BY TypedParts DEF Control, LocksTyped
  <1>2. hpc[t] = "load" /\ Miss(t) /\ UNCHANGED <<key, acc, grp>> /\ t \in RetrieveTask
    BY DEF ReadMisses, LoadRaises, Found, taskVars, Control, Handlers
  <1>3. \A o : Awaits("finishRead", o)' = Awaits("finishRead", o)
    BY LoadingAwaits
  <1>4. \A u \in Task \ {t} : hpc'[u] = hpc[u] /\ key'[u] = key[u] /\ acc'[u] = acc[u] /\ grp'[u] = grp[u]
    BY <1>1, <1>2 DEF TasksTyped, Miss
  <1>5. \A u \in RetrieveTask \ {t} : Holds(u)' = Holds(u)
    BY <1>4, OthersHold
  <1>6. hpc'[t] = "finish"
    BY <1>1, <1>2 DEF TasksTyped, Miss
  <1>7. key[t] \in Key /\ grp[t] \in Group /\ acc[t] \subseteq Early(key[t], grp[t])
    BY <1>1, <1>2 DEF TasksTyped, GroupsInOrder
  <1>8. /\ Holds(t) = acc[t] \cup W \cup L /\ Holds(t)' = acc[t]
        /\ acc[t] \cap W = {} /\ acc[t] \cap L = {} /\ W \cap L = {}
    BY <1>2, <1>6, <1>7, HoldsCases, GroupsApart
  <1>9. /\ readers' = [o \in ObjectKey |-> IF o \in W /\ readers[o] > 0 THEN readers[o] - 1 ELSE readers[o]]
        /\ left' = [o \in ObjectKey |-> IF o \in L THEN left[o] + 1 ELSE left[o]]
    BY <1>2 DEF Miss, FinishReadPrefetched, Leave, Wanted, Behind, Late
  <1> HIDE DEF W, L
  <1>10. \A o \in W : o \in ObjectKey => readers[o] > 0
    <2> SUFFICES ASSUME NEW o \in W, o \in ObjectKey PROVE readers[o] > 0
      OBVIOUS
    <2>1. readers[o] = left[o] + Cardinality(Holding(o)) + Awaits("finishRead", o)
          /\ Awaits("finishRead", o) \in Nat
      BY <1>1, ReadCounts
    <2>2. Cardinality(Holding(o)) >= 1 /\ Cardinality(Holding(o)) \in Nat
      BY <1>2, <1>5, <1>8, HoldingChanges
    <2>3. left[o] \in Nat
      BY <1>1
    <2> QED BY <2>1, <2>2, <2>3
  <1>11. readers' \in [ObjectKey -> Nat] /\ left' \in [ObjectKey -> Nat]
    BY <1>1, <1>9
  <1>12. \A o \in ObjectKey :
            \E taken, gone, lost, behind \in 0 .. 1 :
              /\ readers'[o] = readers[o] + taken - gone
              /\ left'[o] = left[o] + lost
              /\ Awaits("finishRead", o)' = Awaits("finishRead", o) + behind
              /\ One(o \in Holds(t)') = One(o \in Holds(t)) + taken - gone - lost - behind
    <2> SUFFICES ASSUME NEW o \in ObjectKey
                 PROVE  /\ readers'[o] = readers[o] + 0 - One(o \in W)
                        /\ left'[o] = left[o] + One(o \in L)
                        /\ Awaits("finishRead", o)' = Awaits("finishRead", o) + 0
                        /\ One(o \in Holds(t)') = One(o \in Holds(t)) + 0 - One(o \in W) - One(o \in L) - 0
                        /\ One(o \in W) \in 0 .. 1 /\ One(o \in L) \in 0 .. 1
      OBVIOUS
    <2>1. Awaits("finishRead", o) \in Nat /\ left[o] \in Nat /\ readers[o] \in Nat
      BY <1>1, AwaitsNat
    <2>2. Awaits("finishRead", o)' = Awaits("finishRead", o) + 0
      BY <1>3, <2>1
    <2>3. readers'[o] = readers[o] + 0 - One(o \in W)
      BY <1>9, <1>10, <2>1 DEF One
    <2>4. left'[o] = left[o] + One(o \in L)
      BY <1>9, <2>1 DEF One
    <2>5. /\ One(o \in Holds(t)') = One(o \in Holds(t)) + 0 - One(o \in W) - One(o \in L) - 0
          /\ One(o \in W) \in 0 .. 1 /\ One(o \in L) \in 0 .. 1
      BY <1>8 DEF One
    <2> QED BY <2>2, <2>3, <2>4, <2>5
  <1>13. ReadLocksAccounted'
    BY <1>1, <1>2, <1>5, <1>11, <1>12, ReadsMove
  <1> QED BY <1>11, <1>13 DEF LocksTyped

\* A group that is loaded keeps its locks.
LEMMA LoadReads ==
  ASSUME Control, Control', LocksTyped, ReadLocksAccounted, NEW t \in Task, LoadGroup(t)
  PROVE  LocksTyped' /\ ReadLocksAccounted'
  <1>1. DeviceTyped /\ DeviceTyped' /\ TasksTyped /\ left \in [ObjectKey -> Nat] /\ readers \in [ObjectKey -> Nat]
    BY TypedParts DEF Control, LocksTyped
  <1>2. /\ hpc[t] = "load" /\ UNCHANGED <<key, readers, left>> /\ acc' = [acc EXCEPT ![t] = @ \cup Wanted(t)]
        /\ GoOn(t, TRUE)
    BY DEF LoadGroup, Found, taskVars, storageVars, ghostVars
  <1>3. \A o : Awaits("finishRead", o)' = Awaits("finishRead", o)
    BY LoadingAwaits
  <1>4. /\ \A u \in Task \ {t} : hpc'[u] = hpc[u] /\ key'[u] = key[u] /\ acc'[u] = acc[u] /\ grp'[u] = grp[u]
        /\ acc'[t] = acc[t] \cup ObjKeys[key[t]][grp[t]]
    BY <1>1, <1>2 DEF TasksTyped, GoOn, Wanted
  <1>5. \A u \in RetrieveTask \ {t} : Holds(u)' = Holds(u)
    BY <1>4, OthersHold
  <1>6. key[t] \in Key /\ grp[t] \in Group
    BY <1>1 DEF TasksTyped
  <1>7. Holds(t)' = Holds(t)
    <2>1. CASE grp[t] < NumGroups
      <3>1. hpc'[t] = "load" /\ grp'[t] = grp[t] + 1 /\ key'[t] = key[t]
        BY <1>1, <1>2, <2>1 DEF GoOn, TasksTyped
      <3>2. ObjKeys[key[t]][grp[t] + 1] \cup Late(key[t], grp[t] + 1) = Late(key[t], grp[t])
        BY <1>6, <2>1, GroupsInTurn
      <3>3. Holds(t)' = acc'[t] \cup ObjKeys[key[t]][grp[t] + 1] \cup Late(key[t], grp[t] + 1)
        BY <3>1, HoldsCases
      <3>4. Holds(t) = acc[t] \cup ObjKeys[key[t]][grp[t]] \cup Late(key[t], grp[t])
        BY <1>2, HoldsCases
      <3> QED BY <1>4, <3>2, <3>3, <3>4
    <2>2. CASE ~(grp[t] < NumGroups)
      <3>1. hpc'[t] = "finish"
        BY <1>1, <1>2, <2>2 DEF GoOn, TasksTyped
      <3>2. Late(key[t], grp[t]) = {}
        BY <1>6, <2>2, GroupsInTurn
      <3>3. Holds(t)' = acc'[t]
        BY <3>1, HoldsCases
      <3>4. Holds(t) = acc[t] \cup ObjKeys[key[t]][grp[t]] \cup Late(key[t], grp[t])
        BY <1>2, HoldsCases
      <3> QED BY <1>4, <3>2, <3>3, <3>4
    <2> QED BY <2>1, <2>2
  <1>8. \A u \in RetrieveTask : Holds(u)' = Holds(u)
    BY <1>5, <1>7
  <1> QED BY <1>1, <1>2, <1>3, <1>8, ReadsLeftAlone DEF LocksTyped

\* At its end a retrieve hands its locks to a callback.
LEMMA RetrievedReads ==
  ASSUME Control, Control', LocksTyped, ReadLocksAccounted, NEW t \in Task, FinishRetrieve(t)
  PROVE  LocksTyped' /\ ReadLocksAccounted'
  <1>1. DeviceTyped /\ DeviceTyped' /\ TasksTyped /\ left \in [ObjectKey -> Nat] /\ readers \in [ObjectKey -> Nat]
    BY TypedParts DEF Control, LocksTyped
  <1>2. /\ hpc[t] = "finish" /\ UNCHANGED <<key, readers, left>> /\ acc' = [acc EXCEPT ![t] = {}]
        /\ Answer(t) /\ t \in RetrieveTask
    BY DEF FinishRetrieve, storageVars, ghostVars
  <1>3. \A o : /\ o \in acc[t] => Awaits("finishRead", o)' = Awaits("finishRead", o) + 1
               /\ o \notin acc[t] => Awaits("finishRead", o)' = Awaits("finishRead", o)
    BY RetrievingAwaits
  <1>4. \A u \in Task \ {t} : hpc'[u] = hpc[u] /\ key'[u] = key[u] /\ acc'[u] = acc[u] /\ grp'[u] = grp[u]
    BY <1>1, <1>2 DEF TasksTyped, Answer
  <1>5. \A u \in RetrieveTask \ {t} : Holds(u)' = Holds(u)
    BY <1>4, OthersHold
  <1>6. hpc'[t] = "none"
    BY <1>1, <1>2 DEF TasksTyped, Answer
  <1>7. Holds(t) = acc[t] /\ Holds(t)' = {}
    BY <1>2, <1>6, HoldsCases
  <1>8. \A o \in ObjectKey :
            \E taken, gone, lost, behind \in 0 .. 1 :
              /\ readers'[o] = readers[o] + taken - gone
              /\ left'[o] = left[o] + lost
              /\ Awaits("finishRead", o)' = Awaits("finishRead", o) + behind
              /\ One(o \in Holds(t)') = One(o \in Holds(t)) + taken - gone - lost - behind
    <2> SUFFICES ASSUME NEW o \in ObjectKey
                 PROVE  /\ readers'[o] = readers[o] + 0 - 0
                        /\ left'[o] = left[o] + 0
                        /\ Awaits("finishRead", o)' = Awaits("finishRead", o) + One(o \in acc[t])
                        /\ One(o \in Holds(t)') = One(o \in Holds(t)) + 0 - 0 - 0 - One(o \in acc[t])
                        /\ One(o \in acc[t]) \in 0 .. 1
      OBVIOUS
    <2>1. Awaits("finishRead", o) \in Nat /\ left[o] \in Nat /\ readers[o] \in Nat
      BY <1>1, AwaitsNat
    <2>2. readers'[o] = readers[o] + 0 - 0 /\ left'[o] = left[o] + 0
      BY <1>2, <2>1
    <2>3. Awaits("finishRead", o)' = Awaits("finishRead", o) + One(o \in acc[t])
      BY <1>3, <2>1 DEF One
    <2>4. /\ One(o \in Holds(t)') = One(o \in Holds(t)) + 0 - 0 - 0 - One(o \in acc[t])
          /\ One(o \in acc[t]) \in 0 .. 1
      BY <1>7 DEF One
    <2> QED BY <2>2, <2>3, <2>4
  <1>9. readers' \in [ObjectKey -> Nat] /\ left' \in [ObjectKey -> Nat]
    BY <1>1, <1>2
  <1>10. ReadLocksAccounted'
    BY <1>1, <1>2, <1>5, <1>8, <1>9, ReadsMove
  <1> QED BY <1>9, <1>10 DEF LocksTyped

\* The dispatcher gives read locks back.
LEMMA DispatchReads ==
  ASSUME Control, Control', LocksTyped, ReadLocksAccounted, CallbacksOnly, Dispatch
  PROVE  LocksTyped' /\ ReadLocksAccounted'
  <1> DEFINE c == Head(callbacks)
  <1>1. /\ DeviceTyped /\ DeviceTyped' /\ left \in [ObjectKey -> Nat] /\ readers \in [ObjectKey -> Nat]
        /\ callbacks \in Seq(ItemType) /\ callbacks # <<>>
    BY TypedParts DEF Control, LocksTyped, DeviceTyped, Dispatch
  <1>2. UNCHANGED <<hpc, key, acc, grp, left>>
    BY DEF Dispatch, taskVars, handlerVars, ghostVars
  <1>3. c.kind \in {"finishWrite", "finishRead"}
    <2>1. 1 \in DOMAIN callbacks /\ c = callbacks[1]
      BY <1>1
    <2> QED BY <2>1 DEF CallbacksOnly
  <1>4. /\ c.kind = "finishWrite" => readers' = readers
        /\ c.kind = "finishRead" => readers' = [o \in ObjectKey |->
              IF o \in c.objs /\ readers[o] > 0 THEN readers[o] - 1 ELSE readers[o]]
    BY DEF Dispatch, FinishReadPrefetched
  <1> HIDE DEF c
  <1>5. left' \in [ObjectKey -> Nat] /\ readers' \in [ObjectKey -> Nat]
    BY <1>1, <1>2, <1>3, <1>4
  <1>6. ReadLocksAccounted'
    <2> SUFFICES ASSUME NEW o \in ObjectKey
                 PROVE  readers'[o] = left'[o] + Cardinality(Holding(o)') + Awaits("finishRead", o)'
      BY <1>1, <1>5, ReadCountsAfter
    <2>1. Holding(o)' = Holding(o)
      <3>1. \A u \in RetrieveTask : Holds(u)' = Holds(u)
        BY <1>2, HoldsStay
      <3> QED BY <3>1 DEF Holding
    <2>2. /\ readers[o] = left[o] + Cardinality(Holding(o)) + Awaits("finishRead", o)
          /\ Cardinality(Holding(o)) \in Nat
      BY <1>1, ReadCounts
    <2>3. /\ Awaits("finishRead", o)
               = Awaits("finishRead", o)' + One(Carries(c, "finishRead", o))
          /\ Awaits("finishRead", o)' \in Nat
      BY <1>1, AwaitsDispatched DEF c
    <2>4. left[o] \in Nat /\ readers[o] \in Nat
      BY <1>1
    <2>5. CASE Carries(c, "finishRead", o)
      <3>1. One(Carries(c, "finishRead", o)) = 1 /\ c.kind = "finishRead" /\ o \in c.objs
        BY <2>5 DEF One, Carries
      <3>2. readers[o] > 0
        BY <2>2, <2>3, <2>4, <3>1
      <3>3. readers'[o] = readers[o] - 1
        BY <1>4, <3>1, <3>2
      <3> QED BY <1>2, <2>1, <2>2, <2>3, <2>4, <3>1, <3>3
    <2>6. CASE ~Carries(c, "finishRead", o)
      <3>1. One(Carries(c, "finishRead", o)) = 0 /\ (c.kind = "finishWrite" \/ o \notin c.objs)
        BY <1>3, <2>6 DEF One, Carries
      <3>2. readers'[o] = readers[o]
        BY <1>3, <1>4, <3>1
      <3> QED BY <1>2, <2>1, <2>2, <2>3, <2>4, <3>1, <3>2
    <2> QED BY <2>5, <2>6
  <1> QED BY <1>5, <1>6 DEF LocksTyped

\* Retrieves go through their groups in order.
LEMMA NextGroups == IInv /\ GroupsInOrder /\ [Next]_vars => GroupsInOrder'
  <1> SUFFICES ASSUME IInv, GroupsInOrder, [Next]_vars PROVE GroupsInOrder'
    OBVIOUS
  <1>0. Control /\ TasksTyped
    BY InvariantParts, TypedParts DEF Control
  <1>1. ASSUME UNCHANGED <<key, hpc, grp, acc>> PROVE GroupsInOrder'
    BY <1>1 DEF GroupsInOrder, Running
  <1>2. ASSUME NEW t \in Task,
               \A u \in Task \ {t} : hpc'[u] = hpc[u] /\ key'[u] = key[u] /\ acc'[u] = acc[u] /\ grp'[u] = grp[u],
               hpc'[t] \notin {"store", "load", "finish"} => grp'[t] = 1,
               hpc'[t] = "load" => acc'[t] \subseteq Early(key'[t], grp'[t])
        PROVE  GroupsInOrder'
    BY <1>2 DEF GroupsInOrder, Running
  <1>3. ASSUME NEW t \in Task, Worker(t) PROVE GroupsInOrder'
    <2>1. ASSUME NEW k \in Key, Send(t, k) PROVE GroupsInOrder'
      <3>1. /\ hpc' = [hpc EXCEPT ![t] = "queued"] /\ key' = [key EXCEPT ![t] = k]
            /\ UNCHANGED <<grp, acc>> /\ wpc[t] = "idle"
        BY <2>1 DEF Send
      <3>2. hpc[t] = "none"
        BY <1>0, <3>1 DEF Control, Handlers
      <3>3. grp[t] = 1
        BY <3>2 DEF GroupsInOrder, Running
      <3> QED BY <1>0, <1>2, <3>1, <3>3 DEF TasksTyped
    <2> QED BY <1>1, <1>3, <2>1 DEF Worker, SubmitStore, SubmitRetrieve, EngineEvent, FutureDone, taskVars,
            handlerVars
  <1>4. ASSUME NEW t \in Task, Resolve(t) PROVE GroupsInOrder'
    <2>1. hpc[t] = "queued" /\ UNCHANGED <<key, acc>>
      BY <1>4 DEF Resolve, NotRegistered, Malformed, Underflow, BeginStore, BeginRetrieve, Resolved, taskVars
    <2>2. acc[t] = {} /\ grp[t] = 1
      BY <1>0, <2>1 DEF Control, Handlers, Running, GroupsInOrder
    <2>3. CASE Answer(t)
      <3>1. hpc'[t] = "none" /\ grp'[t] = 1
        BY <1>0, <2>3 DEF Answer, TasksTyped
      <3> QED BY <1>0, <1>2, <2>1, <2>3, <3>1 DEF Answer, TasksTyped
    <2>4. CASE BeginStore(t) \/ BeginRetrieve(t)
      <3>1. /\ \A u \in Task \ {t} : hpc'[u] = hpc[u] /\ key'[u] = key[u] /\ acc'[u] = acc[u] /\ grp'[u] = grp[u]
            /\ grp'[t] = 1 /\ acc'[t] = {}
        BY <1>0, <2>1, <2>2, <2>4 DEF BeginStore, BeginRetrieve, TasksTyped
      <3> QED BY <1>2, <3>1
    <2> QED BY <1>4, <2>3, <2>4 DEF Resolve, NotRegistered, Malformed, Underflow
  <1>5. ASSUME NEW t \in Task, Handle(t) PROVE GroupsInOrder'
    <2>1. CASE FinishStore(t) \/ FinishRetrieve(t)
      <3>1. hpc'[t] = "none" /\ grp'[t] = 1
        BY <1>0, <2>1 DEF FinishStore, FinishRetrieve, Answer, TasksTyped
      <3> QED BY <1>0, <1>2, <2>1, <3>1 DEF FinishStore, FinishRetrieve, Answer, TasksTyped
    <2>2. CASE StoreGroup(t) \/ StoreRaises(t)
      <3>1. hpc'[t] \in {"store", "finish"}
        BY <1>0, <2>2 DEF StoreGroup, StoreRaises, GoOn, TasksTyped
      <3>2. \A u \in Task \ {t} : hpc'[u] = hpc[u] /\ key'[u] = key[u] /\ acc'[u] = acc[u] /\ grp'[u] = grp[u]
        BY <1>0, <2>2 DEF StoreGroup, StoreRaises, GoOn, TasksTyped, taskVars
      <3> QED BY <1>2, <3>1, <3>2
    <2>3. CASE ReadMisses(t) \/ LoadRaises(t)
      <3>1. hpc'[t] = "finish"
        BY <1>0, <2>3 DEF ReadMisses, LoadRaises, Miss, TasksTyped
      <3>2. \A u \in Task \ {t} : hpc'[u] = hpc[u] /\ key'[u] = key[u] /\ acc'[u] = acc[u] /\ grp'[u] = grp[u]
        BY <1>0, <2>3 DEF ReadMisses, LoadRaises, Miss, TasksTyped, taskVars
      <3> QED BY <1>2, <3>1, <3>2
    <2>4. CASE LoadGroup(t)
      <3>1. /\ hpc[t] = "load" /\ UNCHANGED key /\ acc' = [acc EXCEPT ![t] = @ \cup Wanted(t)] /\ GoOn(t, TRUE)
        BY <2>4 DEF LoadGroup, Found, taskVars
      <3>2. \A u \in Task \ {t} : hpc'[u] = hpc[u] /\ key'[u] = key[u] /\ acc'[u] = acc[u] /\ grp'[u] = grp[u]
        BY <1>0, <3>1 DEF GoOn, TasksTyped
      <3>3. hpc'[t] \in {"load", "finish"} /\ (hpc'[t] = "load" => grp[t] < NumGroups /\ grp'[t] = grp[t] + 1)
        BY <1>0, <3>1 DEF GoOn, TasksTyped
      <3>4. ASSUME hpc'[t] = "load" PROVE acc'[t] \subseteq Early(key'[t], grp'[t])
        <4>1. key[t] \in Key /\ grp[t] \in Group /\ key'[t] = key[t] /\ acc[t] \subseteq Early(key[t], grp[t])
          BY <1>0, <3>1 DEF TasksTyped, GroupsInOrder
        <4>2. Early(key[t], grp[t] + 1) = Early(key[t], grp[t]) \cup ObjKeys[key[t]][grp[t]]
          BY <3>3, <3>4, <4>1, GroupsInTurn
        <4>3. acc'[t] = acc[t] \cup ObjKeys[key[t]][grp[t]]
          BY <1>0, <3>1 DEF TasksTyped, Wanted
        <4> QED BY <3>3, <3>4, <4>1, <4>2, <4>3
      <3> QED BY <1>2, <3>2, <3>3, <3>4
    <2> QED BY <1>5, <2>1, <2>2, <2>3, <2>4 DEF Handle
  <1>6. CASE RegistryStep
    BY <1>1, <1>6, RegistryFacts DEF taskVars, handlerVars
  <1>7. ASSUME NEW e \in Entry, RunStream(e) PROVE GroupsInOrder'
    BY <1>1, <1>7 DEF RunStream, PassWait, RunSave, RunOn, RunCallback, taskVars, handlerVars
  <1>8. CASE Dispatch
    BY <1>1, <1>8 DEF Dispatch, taskVars, handlerVars
  <1>9. CASE UNCHANGED vars
    BY <1>1, <1>9 DEF vars, taskVars, handlerVars
  <1> QED BY <1>3, <1>4, <1>5, <1>6, <1>7, <1>8, <1>9 DEF Next, RegistryStep

\* Streams hand over callbacks and nothing else.
LEMMA NextCallbacks == IInv /\ CallbacksOnly /\ [Next]_vars => CallbacksOnly'
  <1> SUFFICES ASSUME IInv, CallbacksOnly, [Next]_vars PROVE CallbacksOnly'
    OBVIOUS
  <1>0. Control /\ DeviceTyped
    BY InvariantParts, TypedParts DEF Control
  <1>1. ASSUME UNCHANGED callbacks PROVE CallbacksOnly'
    BY <1>1 DEF CallbacksOnly
  <1>2. ASSUME NEW e \in Entry, RunCallback(e) PROVE CallbacksOnly'
    <2> DEFINE item == Head(stream[e])
    <2>1. stream[e] \in Seq(ItemType) /\ stream[e] # <<>> /\ item.kind \in {"finishWrite", "finishRead"}
          /\ callbacks' = Append(callbacks, item) /\ callbacks \in Seq(ItemType)
      BY <1>0, <1>2 DEF DeviceTyped, RunCallback, Runs
    <2>2. item \in ItemType
      BY <2>1, Shorten
    <2> HIDE DEF item
    <2>3. ASSUME NEW n \in DOMAIN callbacks' PROVE callbacks'[n] = item \/ (n \in DOMAIN callbacks /\ callbacks'[n] = callbacks[n])
      BY <2>1, <2>2, <2>3
    <2> QED BY <2>1, <2>3 DEF CallbacksOnly
  <1>3. CASE Dispatch
    <2>1. \A n \in DOMAIN callbacks' : n + 1 \in DOMAIN callbacks /\ callbacks'[n] = callbacks[n + 1]
      BY <1>0, <1>3, DispatchFacts
    <2> QED BY <2>1 DEF CallbacksOnly
  <1>4. ASSUME NEW t \in Task, Worker(t) \/ Resolve(t) \/ Handle(t) PROVE UNCHANGED callbacks
    BY <1>4 DEF Worker, SubmitStore, SubmitRetrieve, Send, EngineEvent, FutureDone, Resolve,
        NotRegistered, Malformed, Underflow, BeginStore, BeginRetrieve, Resolved, Handle, StoreGroup,
        StoreRaises, FinishStore, ReadMisses, LoadGroup, LoadRaises, FinishRetrieve, deviceVars
  <1>5. RegistryStep \/ UNCHANGED vars => UNCHANGED callbacks
    BY RegistryFacts DEF vars, deviceVars
  <1>6. ASSUME NEW e \in Entry, RunStream(e), ~RunCallback(e) PROVE UNCHANGED callbacks
    BY <1>6 DEF RunStream, PassWait, RunSave, RunOn
  <1> QED BY <1>1, <1>2, <1>3, <1>4, <1>5, <1>6 DEF Next, RegistryStep, RunStream

\* Every step keeps the count of the read locks.
LEMMA NextReads == IInv /\ IInv' /\ Reads /\ [Next]_vars => Reads'
  <1> SUFFICES ASSUME IInv, IInv', Reads, [Next]_vars PROVE Reads'
    OBVIOUS
  <1>0. /\ Control /\ Control' /\ DeviceTyped /\ DeviceTyped' /\ TasksTyped
        /\ LocksTyped /\ GroupsInOrder /\ CallbacksOnly /\ ReadLocksAccounted
        /\ left \in [ObjectKey -> Nat]
    BY InvariantParts, TypedParts DEF Control, Reads, LocksTyped
  <1>1. GroupsInOrder' /\ CallbacksOnly'
    BY <1>0, NextGroups, NextCallbacks
  <1>2. ASSUME UNCHANGED <<readers, left, hpc, key, acc, grp>>,
               \A o : Awaits("finishRead", o)' = Awaits("finishRead", o)
        PROVE  LocksTyped' /\ ReadLocksAccounted'
    <2>1. \A u \in RetrieveTask : Holds(u)' = Holds(u)
      BY <1>2, HoldsStay
    <2> QED BY <1>0, <1>2, <2>1, ReadsLeftAlone DEF LocksTyped
  <1>3. ASSUME UNCHANGED <<stream, callbacks>> PROVE \A o : Awaits("finishRead", o)' = Awaits("finishRead", o)
    BY <1>3, AwaitsLeftAlone
  <1>4. ASSUME NEW t \in Task, Handle(t) PROVE LocksTyped' /\ ReadLocksAccounted'
    <2>1. CASE StoreGroup(t) \/ StoreRaises(t) \/ FinishStore(t)
      <3>1. t \notin RetrieveTask /\ UNCHANGED <<readers, left>>
        BY <1>0, <2>1 DEF Control, Handlers, StoreGroup, StoreRaises, FinishStore, StoreTask, storageVars, ghostVars
      <3>2. \A u \in Task \ {t} : hpc'[u] = hpc[u] /\ key'[u] = key[u] /\ acc'[u] = acc[u] /\ grp'[u] = grp[u]
        BY <1>0, <2>1 DEF StoreGroup, StoreRaises, FinishStore, GoOn, Answer, TasksTyped, taskVars
      <3>3. \A u \in RetrieveTask : Holds(u)' = Holds(u)
        BY <3>1, <3>2, OthersHold
      <3>4. \A o : Awaits("finishRead", o)' = Awaits("finishRead", o)
        BY <1>0, <2>1, StoringAwaits
      <3> QED BY <1>0, <3>1, <3>3, <3>4, ReadsLeftAlone DEF LocksTyped
    <2> QED BY <1>0, <1>4, <2>1, MissReads, LoadReads, RetrievedReads DEF Handle
  <1>5. ASSUME RegistryStep PROVE LocksTyped' /\ ReadLocksAccounted'
    <2>1. UNCHANGED <<readers, left>>
      BY <1>5 DEF RegistryStep, Lifecycle, RegisterLayout, InsertEntry, Unregister, ReapStale, ReleaseEntry,
         Evict, aside, storageVars, ghostVars
    <2> QED BY <1>2, <1>3, <1>5, <2>1, RegistryFacts DEF taskVars, handlerVars
  <1>6. ASSUME NEW e \in Entry, RunStream(e) PROVE LocksTyped' /\ ReadLocksAccounted'
    <2>1. UNCHANGED <<readers, left, hpc, key, acc, grp>>
      BY <1>6 DEF RunStream, PassWait, RunSave, RunOn, RunCallback, storageVars, taskVars, handlerVars, ghostVars
    <2>2. \A o : Awaits("finishRead", o)' = Awaits("finishRead", o)
      BY <1>0, <1>6, AwaitsRun
    <2> QED BY <1>2, <2>1, <2>2
  <1>7. ASSUME UNCHANGED vars PROVE LocksTyped' /\ ReadLocksAccounted'
    BY <1>2, <1>3, <1>7 DEF vars, storageVars, taskVars, handlerVars, deviceVars, ghostVars
  <1>8. LocksTyped' /\ ReadLocksAccounted'
    BY <1>0, <1>4, <1>5, <1>6, <1>7, WorkerReads, ResolveReads, DispatchReads DEF Next, RegistryStep
  <1> QED BY <1>1, <1>8 DEF Reads, LocksTyped

\* Nobody holds a read lock at the beginning.
LEMMA InitReads == Init => Reads
  <1> SUFFICES ASSUME Init PROVE Reads
    OBVIOUS
  <1>1. DeviceTyped
    BY InitIInv, TypedParts DEF IInv
  <1>2. /\ readers = [o \in ObjectKey |-> 0] /\ left = [o \in ObjectKey |-> 0]
        /\ hpc = [t \in Task |-> "none"] /\ grp = [t \in Task |-> 1] /\ callbacks = <<>>
    BY DEF Init
  <1>3. readers \in [ObjectKey -> Nat] /\ left \in [ObjectKey -> Nat]
    BY <1>2
  <1>4. GroupsInOrder /\ CallbacksOnly
    BY <1>2 DEF GroupsInOrder, CallbacksOnly
  <1>5. \A o : Holding(o) = {}
    <2>1. \A t \in RetrieveTask : Holds(t) = {}
      <3>1. \A t \in RetrieveTask : hpc[t] = "none"
        BY <1>2, ConstantsAssumption
      <3> QED BY <3>1, HoldsCases
    <2> QED BY <2>1 DEF Holding
  <1>6. Cardinality({}) = 0 /\ \A o : Awaits("finishRead", o) = 0
    BY FS_EmptySet, InitAwaits
  <1>7. \A o \in ObjectKey : readers[o] = 0 /\ left[o] = 0
    BY <1>2
  <1>8. ReadLocksAccounted
    <2>1. \A o \in ObjectKey : readers[o] = left[o] + Cardinality(Holding(o)) + Awaits("finishRead", o)
      <3> SUFFICES ASSUME NEW o \in ObjectKey
                   PROVE  readers[o] = left[o] + Cardinality(Holding(o)) + Awaits("finishRead", o)
        OBVIOUS
      <3>1. Cardinality(Holding(o)) = 0
        BY <1>5, <1>6
      <3>2. Awaits("finishRead", o) = 0 /\ readers[o] = 0 /\ left[o] = 0
        BY <1>6, <1>7
      <3> QED BY <3>1, <3>2
    <2> QED BY <1>1, <1>3, <2>1, ReadCounts
  <1> QED BY <1>3, <1>4, <1>8 DEF Reads

\* The read locks are accounted for, and the invariant behind it holds.
LEMMA ReadsHold == Spec => []Reads
  <1>1. IInv /\ IInv' /\ Reads /\ [Next]_vars => Reads'
    BY NextReads
  <1> QED BY <1>1, InitReads, Invariance, PTL DEF Spec

\* Every read lock of a lookup is held by its retrieve, awaits a callback, or
\* was left by a retrieve that failed (ReadLocksAccounted): no retrieve gives
\* back the lock of another, whatever the order of streams and handlers.
THEOREM ReadLocksAreAccounted == Spec => []ReadLocksAccounted
  <1>1. Reads => ReadLocksAccounted
    BY DEF Reads
  <1> QED BY <1>1, ReadsHold, PTL

-----------------------------------------------------------------------------
(* Copies into blocks.                                                     *)

\* An object the handler of task t will still give back by the stream of e.
ToGiveBack(o, e, t) == Running(t) /\ entry[t] = e /\ o \in acc[t]

\* A callback behind position n of stream e gives the lock on o back.
GivenBackBehind(o, e, n) == \E m \in DOMAIN stream[e] : n < m /\ Carries(stream[e][m], "finishRead", o)

\* The locks a copy into blocks needs are kept until it is done: by the
\* handler that enqueued it, or by a callback behind it.
ItemBacked(e, n) ==
    stream[e][n].kind = "load" =>
      /\ stream[e][n].task \in RetrieveTask
      /\ hpc[stream[e][n].task] # "queued"
      /\ ok[stream[e][n].task] =>
           \A o \in stream[e][n].objs :
              ToGiveBack(o, e, stream[e][n].task) \/ GivenBackBehind(o, e, n)

LoadsBacked == \A e \in Entry : \A n \in DOMAIN stream[e] : ItemBacked(e, n)

LoadingIsGood == \A t \in RetrieveTask : hpc[t] = "load" => ok[t]

\* A lookup locks objects that can be read.
LockedAreReadable == \A o \in ObjectKey : readers[o] > 0 => obj[o] = "readable"

\* The inductive invariant behind LoadsHoldLocks, next to IInv and Reads.
Loads == LoadsBacked /\ LoadingIsGood /\ LockedAreReadable

\* No copy into the blocks of task u is to come.
NoLoads(u) == \A e \in Entry : \A n \in DOMAIN stream[e] : stream[e][n].kind = "load" => stream[e][n].task # u

\* A step that keeps the locks of task u where they are,
Keeps(u) ==
    /\ hpc'[u] = "queued" => hpc[u] = "queued"
    /\ ok'[u] => ok[u]
    /\ Running(u) => Running(u)' /\ entry'[u] = entry[u] /\ acc[u] \subseteq acc'[u]

\* and one that hands them to a callback.
HandsOver(u) ==
    /\ hpc'[u] # "queued"
    /\ ok'[u] => ok[u]
    /\ \A o \in acc[u] : \E m \in DOMAIN stream'[entry[u]] :
         m \notin DOMAIN stream[entry[u]] /\ Carries(stream'[entry[u]][m], "finishRead", o)

\* Streams that have got nothing but items behind those they had.
Longer(s, z) ==
    \A e \in Entry : \A n \in DOMAIN s[e] : n \in DOMAIN z[e] /\ z[e][n] = s[e][n]

\* A step that adds to streams, if anything, what is backed.
LEMMA BackedStay ==
  ASSUME stream \in [Entry -> Seq(ItemType)], stream' \in [Entry -> Seq(ItemType)], LoadsBacked,
         Longer(stream, stream'),
         \A u \in RetrieveTask : NoLoads(u) \/ Keeps(u) \/ HandsOver(u),
         \A e \in Entry : \A n \in DOMAIN stream'[e] : n \notin DOMAIN stream[e] => ItemBacked(e, n)'
  PROVE  LoadsBacked'
  <1> SUFFICES ASSUME NEW e \in Entry, NEW n \in DOMAIN stream'[e] PROVE ItemBacked(e, n)'
    BY DEF LoadsBacked
  <1>1. CASE n \notin DOMAIN stream[e]
    BY <1>1
  <1>2. CASE n \in DOMAIN stream[e]
    <2>1. PICK item, u : item = stream[e][n] /\ u = item.task
      OBVIOUS
    <2>0. stream'[e][n] = item
      BY <1>2, <2>1 DEF Longer
    <2> SUFFICES ASSUME item.kind = "load"
                 PROVE  /\ u \in RetrieveTask /\ hpc'[u] # "queued"
                        /\ ok'[u] => \A o \in item.objs :
                             ToGiveBack(o, e, u)' \/ GivenBackBehind(o, e, n)'
      BY <2>0, <2>1 DEF ItemBacked, ToGiveBack, GivenBackBehind, Running
    <2>2. /\ u \in RetrieveTask /\ hpc[u] # "queued"
          /\ ok[u] => \A o \in item.objs : ToGiveBack(o, e, u) \/ GivenBackBehind(o, e, n)
      <3>1. ItemBacked(e, n)
        BY <1>2 DEF LoadsBacked
      <3> QED BY <2>1, <3>1 DEF ItemBacked, ToGiveBack, Running
    <2>3. Keeps(u) \/ HandsOver(u)
      BY <1>2, <2>1, <2>2 DEF NoLoads
    <2>4. hpc'[u] # "queued" /\ (ok'[u] => ok[u])
      BY <2>2, <2>3 DEF Keeps, HandsOver
    <2>5. ASSUME ok'[u], NEW o \in item.objs PROVE ToGiveBack(o, e, u)' \/ GivenBackBehind(o, e, n)'
      <3>1. CASE GivenBackBehind(o, e, n)
        BY <3>1 DEF GivenBackBehind, Longer
      <3>2. CASE ToGiveBack(o, e, u) /\ Keeps(u)
        BY <3>2 DEF ToGiveBack, Keeps, Running
      <3>3. CASE ToGiveBack(o, e, u) /\ HandsOver(u)
        <4>1. PICK m \in DOMAIN stream'[e] : m \notin DOMAIN stream[e] /\ Carries(stream'[e][m], "finishRead", o)
          BY <3>3 DEF ToGiveBack, HandsOver
        <4>2. stream[e] \in Seq(ItemType) /\ stream'[e] \in Seq(ItemType)
          OBVIOUS
        <4>3. n \in 1 .. Len(stream[e]) /\ m \notin 1 .. Len(stream[e]) /\ m \in 1 .. Len(stream'[e])
              /\ Len(stream[e]) \in Nat /\ Len(stream'[e]) \in Nat
          BY <1>2, <4>1, <4>2
        <4>4. n < m
          BY <4>3
        <4> QED BY <4>1, <4>4 DEF GivenBackBehind
      <3> QED BY <2>2, <2>3, <2>4, <2>5, <3>1, <3>2, <3>3
    <2> QED BY <2>2, <2>4, <2>5
  <1> QED BY <1>1, <1>2

\* What Enqueue adds.
LEMMA EnqueueLonger ==
  ASSUME DeviceTyped, NEW e \in Entry, NEW items \in Seq(ItemType), Enqueue(e, items)
  PROVE  /\ stream' \in [Entry -> Seq(ItemType)]
         /\ Longer(stream, stream')
         /\ \A f \in Entry : \A n \in DOMAIN stream'[f] : n \notin DOMAIN stream[f] =>
              f = e /\ \E p \in 1 .. Len(items) : n = Len(stream[e]) + p /\ stream'[f][n] = items[p]
         /\ \A p \in 1 .. Len(items) :
              /\ Len(stream[e]) + p \in DOMAIN stream'[e] /\ Len(stream[e]) + p \notin DOMAIN stream[e]
              /\ stream'[e][Len(stream[e]) + p] = items[p]
  <1> DEFINE L == Len(stream[e])
             M == Len(items)
  <1>0. /\ stream \in [Entry -> Seq(ItemType)] /\ stream[e] \in Seq(ItemType)
        /\ stream' = [stream EXCEPT ![e] = stream[e] \o items]
    BY DEF DeviceTyped, Enqueue
  <1>1. stream'[e] = stream[e] \o items /\ \A f \in Entry \ {e} : stream'[f] = stream[f]
    BY <1>0
  <1>2. /\ stream[e] \o items \in Seq(ItemType) /\ Len(stream[e] \o items) = L + M /\ L \in Nat /\ M \in Nat
        /\ \A n \in 1 .. L : (stream[e] \o items)[n] = stream[e][n]
        /\ \A n \in (L + 1) .. (L + M) : (stream[e] \o items)[n] = items[n - L]
    BY <1>0, Extend
  <1>3. stream' \in [Entry -> Seq(ItemType)]
    BY <1>0, <1>2
  <1>4. DOMAIN stream[e] = 1 .. L /\ DOMAIN stream'[e] = 1 .. (L + M)
    BY <1>0, <1>1, <1>2
  <1> HIDE DEF L, M
  <1>5. \A n \in 1 .. L : n \in 1 .. (L + M)
    BY <1>2
  <1>6. Longer(stream, stream')
    BY <1>1, <1>2, <1>4, <1>5 DEF Longer
  <1>7. \A n \in 1 .. (L + M) : n \notin 1 .. L => n \in (L + 1) .. (L + M) /\ n - L \in 1 .. M /\ n = L + (n - L)
    BY <1>2
  <1>8. ASSUME NEW f \in Entry, NEW n \in DOMAIN stream'[f], n \notin DOMAIN stream[f]
        PROVE  f = e /\ \E p \in 1 .. M : n = L + p /\ stream'[f][n] = items[p]
    <2>1. f = e
      BY <1>1, <1>8
    <2>2. n \in (L + 1) .. (L + M) /\ n - L \in 1 .. M /\ n = L + (n - L)
      BY <1>4, <1>7, <1>8, <2>1
    <2>3. stream'[e][n] = items[n - L]
      BY <1>1, <1>2, <2>2
    <2> QED BY <2>1, <2>2, <2>3
  <1>9. ASSUME NEW p \in 1 .. M
        PROVE  L + p \in DOMAIN stream'[e] /\ L + p \notin DOMAIN stream[e] /\ stream'[e][L + p] = items[p]
    <2>1. L + p \in 1 .. (L + M) /\ L + p \notin 1 .. L /\ L + p \in (L + 1) .. (L + M) /\ (L + p) - L = p
      BY <1>2
    <2>2. (stream[e] \o items)[L + p] = items[(L + p) - L]
      BY <1>2, <2>1, Zenon
    <2> QED BY <1>1, <1>4, <2>1, <2>2
  <1> QED BY <1>3, <1>6, <1>8, <1>9 DEF L, M

\* The first item of a stream is done.
LEMMA BackedRun ==
  ASSUME stream \in [Entry -> Seq(ItemType)], LoadsBacked, NEW e \in Entry, stream[e] # <<>>,
         stream' = [stream EXCEPT ![e] = Tail(@)], UNCHANGED <<hpc, entry, acc, ok>>
  PROVE  LoadsBacked'
  <1>1. /\ stream[e] \in Seq(ItemType) /\ stream'[e] = Tail(stream[e])
        /\ \A f \in Entry \ {e} : stream'[f] = stream[f]
    OBVIOUS
  <1>2. /\ Tail(stream[e]) \in Seq(ItemType) /\ Len(stream[e]) \in Nat \ {0}
        /\ Len(Tail(stream[e])) = Len(stream[e]) - 1
        /\ \A n \in 1 .. (Len(stream[e]) - 1) : Tail(stream[e])[n] = stream[e][n + 1]
    BY <1>1, Shorten
  <1>3. DOMAIN stream[e] = 1 .. Len(stream[e]) /\ DOMAIN stream'[e] = 1 .. (Len(stream[e]) - 1)
    BY <1>1, <1>2
  <1> SUFFICES ASSUME NEW f \in Entry, NEW n \in DOMAIN stream'[f] PROVE ItemBacked(f, n)'
    BY DEF LoadsBacked
  <1>4. CASE f # e
    <2>1. stream'[f] = stream[f]
      BY <1>1, <1>4
    <2>2. ItemBacked(f, n)
      BY <2>1 DEF LoadsBacked
    <2> QED BY <2>1, <2>2 DEF ItemBacked, ToGiveBack, GivenBackBehind, Running
  <1>5. CASE f = e
    <2>1. n \in 1 .. (Len(stream[e]) - 1) /\ n + 1 \in DOMAIN stream[e] /\ n \in Int
      BY <1>2, <1>3, <1>5
    <2>2. stream'[e][n] = stream[e][n + 1]
      BY <1>1, <1>2, <2>1
    <2>3. ItemBacked(e, n + 1)
      BY <2>1 DEF LoadsBacked
    <2>4. ASSUME NEW o, GivenBackBehind(o, e, n + 1) PROVE GivenBackBehind(o, e, n)'
      <3>1. PICK m \in DOMAIN stream[e] : n + 1 < m /\ Carries(stream[e][m], "finishRead", o)
        BY <2>4 DEF GivenBackBehind
      <3>2. m - 1 \in 1 .. (Len(stream[e]) - 1) /\ n < m - 1 /\ (m - 1) + 1 = m
        BY <1>2, <1>3, <2>1, <3>1
      <3>3. stream'[e][m - 1] = stream[e][(m - 1) + 1]
        BY <1>1, <1>2, <3>2, Zenon
      <3>4. stream'[e][m - 1] = stream[e][m] /\ m - 1 \in DOMAIN stream'[e]
        BY <1>3, <3>2, <3>3
      <3> QED BY <3>1, <3>2, <3>4 DEF GivenBackBehind
    <2>5. PICK item, u : item = stream[e][n + 1] /\ u = item.task
      OBVIOUS
    <2>6. item = stream'[e][n]
      BY <2>2, <2>5
    <2>7. item.kind = "load" =>
            /\ u \in RetrieveTask /\ hpc[u] # "queued"
            /\ ok[u] => \A o \in item.objs : ToGiveBack(o, e, u) \/ GivenBackBehind(o, e, n + 1)
      BY <2>3, <2>5 DEF ItemBacked, ToGiveBack, Running
    <2>8. \A o : ToGiveBack(o, e, u) => ToGiveBack(o, e, u)'
      BY DEF ToGiveBack, Running
    <2>9. item.kind = "load" =>
            /\ u \in RetrieveTask /\ hpc'[u] # "queued"
            /\ ok'[u] => \A o \in item.objs : ToGiveBack(o, e, u)' \/ GivenBackBehind(o, e, n)'
      BY <2>4, <2>7, <2>8
    <2>10. \A o : ToGiveBack(o, e, u)' <=> Running(u)' /\ entry'[u] = e /\ o \in acc'[u]
      BY DEF ToGiveBack
    <2> QED BY <1>5, <2>5, <2>6, <2>9, <2>10 DEF ItemBacked, ToGiveBack, Running, GivenBackBehind
  <1> QED BY <1>4, <1>5

\* Nothing is enqueued, or no copy into blocks.
LEMMA LoadsStill ==
  ASSUME DeviceTyped, LoadsBacked, UNCHANGED stream,
         \A u \in RetrieveTask : NoLoads(u) \/ Keeps(u) \/ HandsOver(u)
  PROVE  LoadsBacked'
  <1>1. stream \in [Entry -> Seq(ItemType)] /\ stream' \in [Entry -> Seq(ItemType)] /\ Longer(stream, stream')
    BY DEF DeviceTyped, Longer
  <1>2. \A e \in Entry : \A n \in DOMAIN stream'[e] : n \notin DOMAIN stream[e] => ItemBacked(e, n)'
    OBVIOUS
  <1> QED BY <1>1, <1>2, BackedStay

LEMMA LoadsGrow ==
  ASSUME DeviceTyped, LoadsBacked, NEW e \in Entry, NEW items \in Seq(ItemType), Enqueue(e, items),
         \A p \in 1 .. Len(items) : items[p].kind # "load",
         \A u \in RetrieveTask : NoLoads(u) \/ Keeps(u) \/ HandsOver(u)
  PROVE  LoadsBacked'
  <1>1. /\ stream' \in [Entry -> Seq(ItemType)] /\ Longer(stream, stream')
        /\ \A f \in Entry : \A n \in DOMAIN stream'[f] : n \notin DOMAIN stream[f] =>
             f = e /\ \E p \in 1 .. Len(items) : n = Len(stream[e]) + p /\ stream'[f][n] = items[p]
    BY EnqueueLonger
  <1>2. ASSUME NEW f \in Entry, NEW n \in DOMAIN stream'[f], n \notin DOMAIN stream[f] PROVE ItemBacked(f, n)'
    <2>1. PICK p \in 1 .. Len(items) : stream'[f][n] = items[p]
      BY <1>1, <1>2
    <2> QED BY <2>1 DEF ItemBacked
  <1>3. stream \in [Entry -> Seq(ItemType)]
    BY DEF DeviceTyped
  <1> QED BY <1>1, <1>2, <1>3, BackedStay

\* One item, or none.
LEMMA OneItem ==
  ASSUME NEW t \in Task, NEW kind \in ItemKind, NEW objs \in SUBSET ObjectKey, NEW other, other # kind
  PROVE  /\ <<Item(kind, t, objs)>> \in Seq(ItemType) /\ Copies(kind, t, objs) \in Seq(ItemType)
         /\ \A p \in 1 .. Len(<<Item(kind, t, objs)>>) : <<Item(kind, t, objs)>>[p].kind # other
         /\ \A p \in 1 .. Len(Copies(kind, t, objs)) : Copies(kind, t, objs)[p].kind # other
  <1>1. <<Item(kind, t, objs)>> \in Seq(ItemType) /\ Copies(kind, t, objs) \in Seq(ItemType)
    BY CopiesTyped
  <1>2. Len(<<Item(kind, t, objs)>>) = 1 /\ <<Item(kind, t, objs)>>[1].kind = kind
    BY DEF Item
  <1>3. Copies(kind, t, objs) = <<>> \/ Copies(kind, t, objs) = <<Item(kind, t, objs)>>
    BY DEF Copies, NoItems
  <1> QED BY <1>1, <1>2, <1>3

\* An operation is sent, or is over: it has no copy to come.
LEMMA WorkerLoads ==
  ASSUME Control, EventCoversCopies, LoadsBacked, NEW t \in Task, Worker(t)
  PROVE  LoadsBacked'
  <1>1. DeviceTyped /\ TasksTyped
    BY TypedParts DEF Control
  <1>2. UNCHANGED stream
    BY DEF Worker, SubmitStore, SubmitRetrieve, Send, EngineEvent, FutureDone, deviceVars
  <1>3. ASSUME NEW u \in RetrieveTask PROVE NoLoads(u) \/ Keeps(u)
    <2>1. u \in Task
      BY ConstantsAssumption
    <2>2. CASE EngineEvent(t) \/ FutureDone(t)
      BY <1>1, <2>1, <2>2 DEF EngineEvent, FutureDone, handlerVars, TasksTyped, Keeps, Running
    <2>3. ASSUME NEW k \in Key, SubmitStore(t, k) \/ SubmitRetrieve(t, k) PROVE NoLoads(u) \/ Keeps(u)
      <3>1. wpc[t] = "idle" /\ hpc' = [hpc EXCEPT ![t] = "queued"] /\ UNCHANGED <<entry, acc, ok>>
        BY <2>3 DEF SubmitStore, SubmitRetrieve, Send
      <3>2. CASE u = t
        <4>1. \A e \in Entry : \A n \in DOMAIN stream[e] :
                stream[e][n].task = t => stream[e][n].kind \in {"finishWrite", "finishRead"}
          BY <3>1 DEF EventCoversCopies
        <4> QED BY <3>2, <4>1 DEF NoLoads
      <3>3. CASE u # t
        BY <1>1, <2>1, <3>1, <3>3 DEF TasksTyped, Keeps, Running
      <3> QED BY <3>2, <3>3
    <2> QED BY <2>2, <2>3 DEF Worker
  <1> QED BY <1>1, <1>2, <1>3, LoadsStill

\* A request that is queued has no copy to come.
LEMMA ResolveLoads ==
  ASSUME Control, LoadsBacked, NEW t \in Task, Resolve(t)
  PROVE  LoadsBacked'
  <1>1. DeviceTyped /\ TasksTyped
    BY TypedParts DEF Control
  <1>2. hpc[t] = "queued"
    BY DEF Resolve, NotRegistered, Malformed, Underflow, BeginStore, BeginRetrieve, Resolved
  <1>3. /\ \A u \in Task \ {t} : hpc'[u] = hpc[u] /\ entry'[u] = entry[u] /\ ok'[u] = ok[u]
        /\ acc' = acc
    BY <1>1 DEF TasksTyped, Resolve, NotRegistered, Malformed, Underflow, BeginStore, BeginRetrieve, Answer
  <1>4. \A u \in RetrieveTask : NoLoads(u) \/ Keeps(u)
    <2>1. NoLoads(t)
      BY <1>2 DEF NoLoads, LoadsBacked, ItemBacked
    <2>2. \A u \in RetrieveTask : u \in Task
      BY ConstantsAssumption
    <2> QED BY <1>3, <2>1, <2>2 DEF Keeps, Running
  <1>5. CASE NotRegistered(t) \/ Malformed(t) \/ BeginRetrieve(t)
    <2>1. UNCHANGED stream
      BY <1>5 DEF NotRegistered, Malformed, BeginRetrieve, deviceVars
    <2> QED BY <1>1, <1>4, <2>1, LoadsStill
  <1>6. CASE Underflow(t) \/ BeginStore(t)
    <2>1. contexts[InstanceOf[t]] \in Entry
      BY <1>6, ResolvedEntry DEF Underflow, BeginStore, Resolved, Control
    <2>2. "event" \in ItemKind /\ "wait" \in ItemKind /\ {} \in SUBSET ObjectKey
      BY DEF ItemKind
    <2>3. PICK kind \in {"event", "wait"} : Enqueue(contexts[InstanceOf[t]], <<Item(kind, t, {})>>)
      BY <1>6 DEF Underflow, BeginStore
    <2>4. /\ <<Item(kind, t, {})>> \in Seq(ItemType)
          /\ \A p \in 1 .. Len(<<Item(kind, t, {})>>) : <<Item(kind, t, {})>>[p].kind # "load"
      <3> DEFINE a == Item(kind, t, {})
      <3>1. a \in ItemType /\ a.kind # "load"
        BY DEF Item, ItemType, ItemKind
      <3> HIDE DEF a
      <3>2. <<a>> \in Seq(ItemType) /\ \A p \in 1 .. Len(<<a>>) : <<a>>[p].kind # "load"
        BY <3>1
      <3> QED BY <3>2 DEF a
    <2> QED BY <1>1, <1>4, <2>1, <2>3, <2>4, LoadsGrow
  <1> QED BY <1>5, <1>6 DEF Resolve

\* The tasks other than the one that takes a step keep their locks.
LEMMA OthersKeep ==
  ASSUME NEW t, \A u \in Task \ {t} : hpc'[u] = hpc[u] /\ entry'[u] = entry[u] /\ ok'[u] = ok[u] /\ acc'[u] = acc[u]
  PROVE  \A u \in RetrieveTask : u # t => Keeps(u)
  <1>1. \A u \in RetrieveTask : u \in Task
    BY ConstantsAssumption
  <1> QED BY <1>1 DEF Keeps, Running

\* A store copies into no block.
LEMMA StoringLoads ==
  ASSUME Control, LoadsBacked, NEW t \in Task, StoreGroup(t) \/ StoreRaises(t) \/ FinishStore(t)
  PROVE  LoadsBacked'
  <1>1. DeviceTyped /\ TasksTyped
    BY TypedParts DEF Control
  <1>2. t \notin RetrieveTask /\ Running(t) /\ entry[t] \in Entry
    BY DEF Control, Handlers, StoreGroup, StoreRaises, FinishStore, StoreTask, Running
  <1>3. \A u \in Task \ {t} : hpc'[u] = hpc[u] /\ entry'[u] = entry[u] /\ ok'[u] = ok[u] /\ acc'[u] = acc[u]
    BY <1>1 DEF TasksTyped, StoreGroup, StoreRaises, FinishStore, GoOn, Answer
  <1>4. \A u \in RetrieveTask : Keeps(u)
    BY <1>2, <1>3, OthersKeep
  <1>5. CASE StoreGroup(t) \/ StoreRaises(t)
    <2>1. PICK objs \in SUBSET ObjectKey : Enqueue(entry[t], Copies("save", t, objs))
      BY <1>5 DEF StoreGroup, StoreRaises
    <2>2. "save" \in ItemKind /\ "load" # "save"
      BY DEF ItemKind
    <2>3. /\ Copies("save", t, objs) \in Seq(ItemType)
          /\ \A p \in 1 .. Len(Copies("save", t, objs)) : Copies("save", t, objs)[p].kind # "load"
      BY <2>2, OneItem
    <2> QED BY <1>1, <1>2, <1>4, <2>1, <2>3, LoadsGrow
  <1>6. CASE FinishStore(t)
    <2> DEFINE a == Item("event", t, {})
               b == Item("finishWrite", t, acc[t])
    <2>1. a \in ItemType /\ b \in ItemType /\ a.kind # "load" /\ b.kind # "load"
      <3>1. acc[t] \in SUBSET ObjectKey
        BY <1>1 DEF TasksTyped
      <3> QED BY <3>1 DEF Item, ItemType, ItemKind
    <2>2. Enqueue(entry[t], <<a, b>>) \/ Enqueue(entry[t], <<a>>)
      BY <1>6 DEF FinishStore
    <2> HIDE DEF a, b
    <2>3. /\ <<a, b>> \in Seq(ItemType) /\ \A p \in 1 .. Len(<<a, b>>) : <<a, b>>[p].kind # "load"
          /\ <<a>> \in Seq(ItemType) /\ \A p \in 1 .. Len(<<a>>) : <<a>>[p].kind # "load"
      BY <2>1
    <2> QED BY <1>1, <1>2, <1>4, <2>2, <2>3, LoadsGrow
  <1> QED BY <1>5, <1>6

\* A group that is missing, or raises, ends with False: nobody waits for its copies.
LEMMA MissLoads ==
  ASSUME Control, LoadsBacked, NEW t \in Task, ReadMisses(t) \/ LoadRaises(t)
  PROVE  LoadsBacked'
  <1>1. DeviceTyped /\ TasksTyped /\ stream \in [Entry -> Seq(ItemType)]
    BY TypedParts DEF Control, DeviceTyped
  <1>2. /\ hpc[t] = "load" /\ UNCHANGED <<entry, acc>> /\ t \in RetrieveTask /\ entry[t] \in Entry
        /\ hpc' = [hpc EXCEPT ![t] = "finish"] /\ ok' = [ok EXCEPT ![t] = FALSE]
    BY DEF ReadMisses, LoadRaises, Found, Miss, Control, Handlers, Running
  <1>3. hpc'[t] = "finish" /\ ~ok'[t]
    BY <1>1, <1>2 DEF TasksTyped
  <1>4. \A u \in RetrieveTask : Keeps(u)
    <2>1. \A u \in RetrieveTask : u # t => Keeps(u)
      BY <1>1, <1>2, OthersKeep DEF TasksTyped
    <2>2. Keeps(t)
      BY <1>2, <1>3 DEF Keeps, Running
    <2> QED BY <2>1, <2>2
  <1>5. CASE ReadMisses(t)
    <2>1. UNCHANGED stream
      BY <1>5 DEF ReadMisses, deviceVars
    <2> QED BY <1>1, <1>4, <2>1, LoadsStill
  <1>6. CASE LoadRaises(t)
    <2>1. PICK objs \in SUBSET ObjectKey : Enqueue(entry[t], Copies("load", t, objs))
      BY <1>6, ResolvedEntry DEF LoadRaises, Control
    <2>2. Copies("load", t, objs) \in Seq(ItemType)
      BY CopiesTyped DEF ItemKind
    <2>3. \A p \in 1 .. Len(Copies("load", t, objs)) : Copies("load", t, objs)[p].task = t
      BY DEF Copies, Item, NoItems
    <2> DEFINE items == Copies("load", t, objs)
    <2> HIDE DEF items
    <2>4. /\ stream' \in [Entry -> Seq(ItemType)] /\ Longer(stream, stream')
          /\ \A f \in Entry : \A n \in DOMAIN stream'[f] : n \notin DOMAIN stream[f] =>
               f = entry[t] /\ \E p \in 1 .. Len(items) : stream'[f][n] = items[p]
      <3>1. items \in Seq(ItemType) /\ Enqueue(entry[t], items)
        BY <2>1, <2>2 DEF items
      <3> QED BY <1>1, <1>2, <3>1, EnqueueLonger
    <2>5. ASSUME NEW f \in Entry, NEW n \in DOMAIN stream'[f], n \notin DOMAIN stream[f] PROVE ItemBacked(f, n)'
      <3>1. stream'[f][n].task = t
        BY <2>3, <2>4, <2>5 DEF items
      <3> QED BY <1>2, <1>3, <3>1 DEF ItemBacked
    <2> QED BY <1>1, <1>4, <2>4, <2>5, BackedStay
  <1> QED BY <1>5, <1>6

\* The locks of a group that is loaded are the handler's to give back.
LEMMA GroupLoads ==
  ASSUME Control, LoadsBacked, LoadingIsGood, NEW t \in Task, LoadGroup(t)
  PROVE  LoadsBacked'
  <1>1. DeviceTyped /\ TasksTyped /\ stream \in [Entry -> Seq(ItemType)]
    BY TypedParts DEF Control, DeviceTyped
  <1>2. /\ hpc[t] = "load" /\ UNCHANGED entry /\ t \in RetrieveTask /\ entry[t] \in Entry /\ ok[t]
        /\ acc' = [acc EXCEPT ![t] = @ \cup Wanted(t)] /\ GoOn(t, TRUE)
        /\ Enqueue(entry[t], Copies("load", t, Wanted(t)))
    BY DEF LoadGroup, Found, Control, Handlers, Running, LoadingIsGood
  <1>3. hpc'[t] \in {"load", "finish"} /\ entry'[t] = entry[t] /\ acc'[t] = acc[t] \cup Wanted(t)
    BY <1>1, <1>2 DEF TasksTyped, GoOn
  <1>4. \A u \in RetrieveTask : Keeps(u)
    <2>1. \A u \in Task \ {t} : hpc'[u] = hpc[u] /\ entry'[u] = entry[u] /\ ok'[u] = ok[u] /\ acc'[u] = acc[u]
      BY <1>1, <1>2 DEF TasksTyped, GoOn
    <2>2. \A u \in RetrieveTask : u # t => Keeps(u)
      BY <2>1, OthersKeep
    <2>3. Keeps(t)
      BY <1>2, <1>3 DEF Keeps, Running
    <2> QED BY <2>2, <2>3
  <1>5. Wanted(t) \in SUBSET ObjectKey
    BY ResolvedEntry DEF Control
  <1> DEFINE items == Copies("load", t, Wanted(t))
  <1>6. items \in Seq(ItemType) /\ \A p \in 1 .. Len(items) : items[p].task = t /\ items[p].objs = Wanted(t)
    <2>1. items \in Seq(ItemType)
      BY <1>5, CopiesTyped DEF ItemKind
    <2> QED BY <2>1 DEF Copies, Item, NoItems
  <1>7. Enqueue(entry[t], items)
    BY <1>2
  <1> HIDE DEF items
  <1>8. /\ stream' \in [Entry -> Seq(ItemType)] /\ Longer(stream, stream')
        /\ \A f \in Entry : \A n \in DOMAIN stream'[f] : n \notin DOMAIN stream[f] =>
             f = entry[t] /\ \E p \in 1 .. Len(items) : stream'[f][n] = items[p]
    BY <1>1, <1>2, <1>6, <1>7, EnqueueLonger
  <1>9. ASSUME NEW f \in Entry, NEW n \in DOMAIN stream'[f], n \notin DOMAIN stream[f] PROVE ItemBacked(f, n)'
    <2>1. f = entry[t] /\ stream'[f][n].task = t /\ stream'[f][n].objs = Wanted(t)
      BY <1>6, <1>8, <1>9
    <2>2. \A o \in Wanted(t) : hpc'[t] \in {"store", "load", "finish"} /\ entry'[t] = f /\ o \in acc'[t]
      BY <1>3, <2>1
    <2> QED BY <1>2, <1>3, <2>1, <2>2 DEF ItemBacked, ToGiveBack, Running
  <1> QED BY <1>1, <1>4, <1>8, <1>9, BackedStay

\* A retrieve that ends hands its locks to the callback it enqueues.
LEMMA RetrievedLoads ==
  ASSUME Control, LoadsBacked, NEW t \in Task, FinishRetrieve(t)
  PROVE  LoadsBacked'
  <1>1. DeviceTyped /\ TasksTyped /\ stream \in [Entry -> Seq(ItemType)]
    BY TypedParts DEF Control, DeviceTyped
  <1>2. /\ hpc[t] = "finish" /\ UNCHANGED ok /\ t \in RetrieveTask /\ entry[t] \in Entry
        /\ Answer(t) /\ acc' = [acc EXCEPT ![t] = {}] /\ acc[t] \in SUBSET ObjectKey
        /\ Enqueue(entry[t], <<Item("event", t, {})>> \o Copies("finishRead", t, acc[t]))
    BY <1>1 DEF FinishRetrieve, Control, Handlers, Running, TasksTyped
  <1>3. hpc'[t] = "none" /\ \A u \in Task \ {t} : hpc'[u] = hpc[u] /\ entry'[u] = entry[u] /\ ok'[u] = ok[u] /\ acc'[u] = acc[u]
    BY <1>1, <1>2 DEF TasksTyped, Answer
  <1>4. \A u \in RetrieveTask : u # t => Keeps(u)
    BY <1>3, OthersKeep
  <1> DEFINE a == Item("event", t, {})
             b == Item("finishRead", t, acc[t])
             items == <<a>> \o Copies("finishRead", t, acc[t])
  <1>5. a \in ItemType /\ b \in ItemType /\ a.kind = "event" /\ b.kind = "finishRead" /\ b.objs = acc[t]
    BY <1>2 DEF Item, ItemType, ItemKind
  <1>6. (acc[t] = {} /\ items = <<a>>) \/ (acc[t] # {} /\ items = <<a, b>>)
    BY <1>5, Pair DEF Copies, NoItems
  <1>7. Enqueue(entry[t], items)
    BY <1>2
  <1> HIDE DEF a, b, items
  <1>8. /\ items \in Seq(ItemType) /\ \A p \in 1 .. Len(items) : items[p].kind # "load"
        /\ acc[t] # {} => 2 \in 1 .. Len(items) /\ items[2] = b
    <2>1. a.kind # "load" /\ b.kind # "load"
      BY <1>5
    <2>2. CASE acc[t] = {} /\ items = <<a>>
      BY <1>5, <2>1, <2>2
    <2>3. CASE acc[t] # {} /\ items = <<a, b>>
      <3>1. items \in Seq(ItemType) /\ Len(items) = 2 /\ items[1] = a /\ items[2] = b
        BY <1>5, <2>3
      <3> QED BY <2>1, <3>1
    <2> QED BY <1>6, <2>2, <2>3
  <1>9. \A p \in 1 .. Len(items) :
          /\ Len(stream[entry[t]]) + p \in DOMAIN stream'[entry[t]]
          /\ Len(stream[entry[t]]) + p \notin DOMAIN stream[entry[t]]
          /\ stream'[entry[t]][Len(stream[entry[t]]) + p] = items[p]
    BY <1>1, <1>2, <1>7, <1>8, EnqueueLonger
  <1>10. HandsOver(t)
    <2> SUFFICES ASSUME NEW o \in acc[t]
                 PROVE  \E m \in DOMAIN stream'[entry[t]] :
                          m \notin DOMAIN stream[entry[t]] /\ Carries(stream'[entry[t]][m], "finishRead", o)
      BY <1>2, <1>3 DEF HandsOver
    <2> DEFINE m == Len(stream[entry[t]]) + 2
    <2>1. m \in DOMAIN stream'[entry[t]] /\ m \notin DOMAIN stream[entry[t]] /\ stream'[entry[t]][m] = b
      BY <1>8, <1>9
    <2>2. Carries(b, "finishRead", o)
      BY <1>5 DEF Carries
    <2> HIDE DEF m
    <2> QED BY <2>1, <2>2
  <1> QED BY <1>1, <1>2, <1>4, <1>7, <1>8, <1>10, LoadsGrow

\* What is read-locked stays in the storage and can be read.
LEMMA NextReadable == IInv /\ Reads /\ LockedAreReadable /\ [Next]_vars => LockedAreReadable'
  <1> SUFFICES ASSUME IInv, Reads, LockedAreReadable, [Next]_vars,
                      NEW o \in ObjectKey, readers'[o] > 0
               PROVE  obj'[o] = "readable"
    BY DEF LockedAreReadable
  <1>1. /\ Control /\ readers \in [ObjectKey -> Nat] /\ obj \in [ObjectKey -> {"absent", "writing", "readable"}]
        /\ (readers[o] > 0 => obj[o] = "readable")
    BY InvariantParts, TypedParts DEF Reads, Control, StorageTyped, LockedAreReadable
  <1>2. CASE UNCHANGED <<obj, readers>>
    BY <1>1, <1>2
  <1>3. ASSUME NEW objs, FinishReadPrefetched(objs), UNCHANGED obj PROVE obj'[o] = "readable"
    <2>1. readers[o] > 0
      BY <1>1, <1>3 DEF FinishReadPrefetched
    <2> QED BY <1>1, <1>3, <2>1
  <1>4. ASSUME NEW t \in Task, Worker(t) PROVE obj'[o] = "readable"
    <2>1. CASE EngineEvent(t) \/ FutureDone(t) \/ \E k \in Key : SubmitStore(t, k)
      <3>1. UNCHANGED <<obj, readers>>
        BY <2>1 DEF EngineEvent, FutureDone, SubmitStore, storageVars
      <3> QED BY <1>2, <3>1
    <2>2. ASSUME NEW k \in Key, SubmitRetrieve(t, k) PROVE obj'[o] = "readable"
      BY <1>1, <2>2 DEF SubmitRetrieve, LockPrefetched
    <2> QED BY <1>4, <2>1, <2>2 DEF Worker
  <1>5. ASSUME NEW t \in Task, Resolve(t) PROVE obj'[o] = "readable"
    BY <1>2, <1>5 DEF Resolve, NotRegistered, Malformed, Underflow, BeginStore, BeginRetrieve, storageVars
  <1>6. ASSUME NEW t \in Task, Handle(t) PROVE obj'[o] = "readable"
    <2>1. CASE StoreGroup(t) \/ StoreRaises(t)
      <3>1. UNCHANGED readers /\ \E given \in SUBSET ObjectKey : Granted(t, given)
        BY <2>1 DEF StoreGroup, StoreRaises
      <3> QED BY <1>1, <3>1 DEF Granted, Reservable
    <2>2. CASE FinishStore(t) \/ LoadGroup(t) \/ FinishRetrieve(t)
      BY <1>2, <2>2 DEF FinishStore, LoadGroup, FinishRetrieve, storageVars
    <2>3. CASE ReadMisses(t) \/ LoadRaises(t)
      BY <1>3, <2>3 DEF ReadMisses, LoadRaises, Miss
    <2> QED BY <1>6, <2>1, <2>2, <2>3 DEF Handle
  <1>7. ASSUME NEW e \in Entry, RunStream(e) PROVE obj'[o] = "readable"
    BY <1>2, <1>7 DEF RunStream, PassWait, RunSave, RunOn, RunCallback, storageVars
  <1>8. CASE Dispatch
    <2>1. CASE FinishWrite(Head(callbacks).objs) /\ UNCHANGED readers
      BY <1>1, <2>1 DEF FinishWrite
    <2>2. CASE FinishReadPrefetched(Head(callbacks).objs) /\ UNCHANGED obj
      BY <1>3, <2>2
    <2> QED BY <1>8, <2>1, <2>2 DEF Dispatch
  <1>9. CASE RegistryStep
    <2>1. UNCHANGED readers
      BY <1>9 DEF RegistryStep, Lifecycle, RegisterLayout, InsertEntry, Unregister, ReapStale, ReleaseEntry,
         Evict, aside, storageVars
    <2>2. UNCHANGED obj \/ \E p \in ObjectKey : Unlocked(p) /\ Drop({p})
      BY <1>9, RegistryFacts
    <2> QED BY <1>1, <2>1, <2>2 DEF Unlocked, Drop
  <1>10. CASE UNCHANGED vars
    BY <1>2, <1>10 DEF vars, storageVars
  <1> QED BY <1>4, <1>5, <1>6, <1>7, <1>8, <1>9, <1>10 DEF Next, RegistryStep

\* A retrieve is good until a group of it is missing, or raises.
LEMMA NextGood == IInv /\ LoadingIsGood /\ [Next]_vars => LoadingIsGood'
  <1> SUFFICES ASSUME IInv, LoadingIsGood, [Next]_vars, NEW u \in RetrieveTask, hpc'[u] = "load"
               PROVE  ok'[u]
    BY DEF LoadingIsGood
  <1>1. Control /\ TasksTyped /\ u \in Task
    BY InvariantParts, TypedParts, ConstantsAssumption DEF Control
  <1>2. CASE hpc'[u] = hpc[u] /\ ok'[u] = ok[u]
    BY <1>2 DEF LoadingIsGood
  <1>3. ASSUME NEW t \in Task, Worker(t) PROVE ok'[u]
    <2>1. CASE EngineEvent(t)
      BY <1>2, <2>1 DEF EngineEvent, handlerVars
    <2>2. CASE FutureDone(t)
      <3>1. u # t
        BY <1>1, <2>2 DEF FutureDone, Ended, Control, Handlers
      <3> QED BY <1>1, <1>2, <2>2, <3>1 DEF FutureDone, TasksTyped
    <2>3. ASSUME NEW k \in Key, SubmitStore(t, k) \/ SubmitRetrieve(t, k) PROVE ok'[u]
      BY <1>1, <1>2, <2>3 DEF SubmitStore, SubmitRetrieve, Send, TasksTyped
    <2> QED BY <1>3, <2>1, <2>2, <2>3 DEF Worker
  <1>4. ASSUME NEW t \in Task, Resolve(t) PROVE ok'[u]
    <2>1. CASE u = t
      BY <1>1, <1>4, <2>1 DEF Resolve, NotRegistered, Malformed, Underflow, BeginStore, BeginRetrieve, Answer, TasksTyped
    <2>2. CASE u # t
      BY <1>1, <1>2, <1>4, <2>2 DEF Resolve, NotRegistered, Malformed, Underflow, BeginStore, BeginRetrieve, Answer, TasksTyped
    <2> QED BY <2>1, <2>2
  <1>5. ASSUME NEW t \in Task, Handle(t) PROVE ok'[u]
    <2>1. CASE u # t
      BY <1>1, <1>2, <1>5, <2>1 DEF Handle, StoreGroup, StoreRaises, FinishStore, ReadMisses, LoadGroup, LoadRaises,
         FinishRetrieve, Miss, GoOn, Answer, TasksTyped
    <2>2. CASE u = t
      <3>1. CASE StoreGroup(t) \/ StoreRaises(t) \/ FinishStore(t)
        BY <1>1, <2>2, <3>1 DEF StoreGroup, StoreRaises, FinishStore, Control, Handlers, StoreTask
      <3>2. CASE ReadMisses(t) \/ LoadRaises(t) \/ FinishRetrieve(t)
        BY <1>1, <2>2, <3>2 DEF ReadMisses, LoadRaises, FinishRetrieve, Miss, Answer, TasksTyped
      <3>3. CASE LoadGroup(t)
        BY <1>1, <1>2, <2>2, <3>3 DEF LoadGroup, GoOn, TasksTyped
      <3> QED BY <1>5, <3>1, <3>2, <3>3 DEF Handle
    <2> QED BY <2>1, <2>2
  <1>6. ASSUME NEW e \in Entry, RunStream(e) PROVE ok'[u]
    BY <1>1, <1>2, <1>6, RunFacts DEF handlerVars
  <1>7. CASE Dispatch
    BY <1>1, <1>2, <1>7, DispatchFacts DEF handlerVars
  <1>8. CASE RegistryStep
    BY <1>2, <1>8, RegistryFacts DEF handlerVars
  <1>9. CASE UNCHANGED vars
    BY <1>2, <1>9 DEF vars, handlerVars
  <1> QED BY <1>3, <1>4, <1>5, <1>6, <1>7, <1>8, <1>9 DEF Next, RegistryStep

\* Every step keeps the locks of the copies to come.
LEMMA NextLoads == IInv /\ Reads /\ Loads /\ [Next]_vars => Loads'
  <1> SUFFICES ASSUME IInv, Reads, Loads, [Next]_vars PROVE LoadsBacked'
    BY NextReadable, NextGood DEF Loads
  <1>1. Control /\ EventCoversCopies /\ LoadsBacked /\ LoadingIsGood /\ DeviceTyped
    BY InvariantParts, TypedParts, IdleHasNoCopies DEF Control, Loads
  <1>2. CASE UNCHANGED <<stream, handlerVars>>
    <2>1. \A u \in RetrieveTask : Keeps(u)
      BY <1>2 DEF handlerVars, Keeps, Running
    <2> QED BY <1>1, <1>2, <2>1, LoadsStill
  <1>3. ASSUME NEW t \in Task, Worker(t) \/ Resolve(t) \/ Handle(t) PROVE LoadsBacked'
    BY <1>1, <1>3, WorkerLoads, ResolveLoads, StoringLoads, MissLoads, GroupLoads, RetrievedLoads DEF Handle
  <1>4. ASSUME NEW e \in Entry, RunStream(e) PROVE LoadsBacked'
    <2>1. /\ stream[e] # <<>> /\ stream' = [stream EXCEPT ![e] = Tail(@)]
          /\ UNCHANGED <<hpc, entry, acc, ok>>
      BY <1>1, <1>4, RunFacts DEF handlerVars
    <2> QED BY <1>1, <2>1, BackedRun DEF DeviceTyped
  <1>5. CASE Dispatch
    BY <1>1, <1>2, <1>5, DispatchFacts
  <1>6. CASE RegistryStep
    BY <1>2, <1>6, RegistryFacts
  <1>7. CASE UNCHANGED vars
    BY <1>2, <1>7 DEF vars, deviceVars
  <1> QED BY <1>3, <1>4, <1>5, <1>6, <1>7 DEF Next, RegistryStep

\* Nothing is locked, loaded or enqueued at the beginning.
LEMMA InitLoads == Init => Loads
  <1> SUFFICES ASSUME Init PROVE Loads
    OBVIOUS
  <1>1. \A e \in Entry : stream[e] = <<>>
    BY DEF Init
  <1>2. \A t \in RetrieveTask : hpc[t] = "none"
    BY ConstantsAssumption DEF Init
  <1>3. \A o \in ObjectKey : readers[o] = 0
    BY DEF Init
  <1> QED BY <1>1, <1>2, <1>3 DEF Loads, LoadsBacked, LoadingIsGood, LockedAreReadable

\* What is to be given back is locked.
LEMMA BackedAreLocked == IInv /\ Reads /\ Loads => LoadsHoldLocks
  <1> SUFFICES ASSUME IInv, Reads, Loads, NEW e \in Entry, NEW n \in DOMAIN stream[e],
                      stream[e][n].kind = "load", ok[stream[e][n].task], NEW o \in stream[e][n].objs
               PROVE  obj[o] = "readable" /\ readers[o] > 0
    BY DEF LoadsHoldLocks
  <1>1. /\ DeviceTyped /\ TasksTyped /\ Control /\ left \in [ObjectKey -> Nat] /\ ReadLocksAccounted
        /\ stream \in [Entry -> Seq(ItemType)]
    BY InvariantParts, TypedParts DEF Control, Reads, DeviceTyped
  <1>2. o \in ObjectKey
    BY <1>1, ItemsTyped
  <1>3. PICK t : t = stream[e][n].task
    OBVIOUS
  <1>4. t \in RetrieveTask /\ (ToGiveBack(o, e, t) \/ GivenBackBehind(o, e, n))
    <2>1. ItemBacked(e, n)
      BY DEF Loads, LoadsBacked
    <2> QED BY <1>3, <2>1 DEF ItemBacked, ToGiveBack, Running
  <1>5. /\ readers[o] = left[o] + Cardinality(Holding(o)) + Awaits("finishRead", o)
        /\ left[o] \in Nat /\ Cardinality(Holding(o)) \in Nat /\ IsFiniteSet(Holding(o))
        /\ Awaits("finishRead", o) \in Nat
    BY <1>1, <1>2, ReadCounts
  <1>6. CASE ToGiveBack(o, e, t)
    <2>1. hpc[t] \in {"load", "finish"} /\ o \in acc[t]
      BY <1>1, <1>4, <1>6, ConstantsAssumption DEF ToGiveBack, Running, Control, Handlers, StoreTask
    <2>2. o \in Holds(t)
      BY <2>1, HoldsCases
    <2>3. t \in Holding(o)
      BY <1>4, <2>2 DEF Holding
    <2>4. Cardinality(Holding(o)) # 0
      BY <1>5, <2>3, FS_EmptySet
    <2>5. readers[o] > 0
      BY <1>5, <2>4
    <2> QED BY <1>2, <2>5 DEF Loads, LockedAreReadable
  <1>7. CASE GivenBackBehind(o, e, n)
    <2>1. PICK m \in DOMAIN stream[e] : Carries(stream[e][m], "finishRead", o)
      BY <1>7 DEF GivenBackBehind
    <2>2. <<e, m>> \in Pairs(stream, "finishRead", o)
      BY <2>1, PairsMembers
    <2>3. /\ IsFiniteSet(Pairs(stream, "finishRead", o)) /\ Cardinality(Pairs(stream, "finishRead", o)) \in Nat
      BY <1>1, PairsFinite
    <2>4. Cardinality(Pairs(stream, "finishRead", o)) # 0
      BY <2>2, <2>3, FS_EmptySet
    <2>5. /\ Awaits("finishRead", o) = Cardinality(Pairs(stream, "finishRead", o)) + Cardinality(Places(callbacks, "finishRead", o))
          /\ Cardinality(Places(callbacks, "finishRead", o)) \in Nat
      BY <1>1, AwaitsNat
    <2> DEFINE held == Cardinality(Holding(o))
               behind == Cardinality(Pairs(stream, "finishRead", o))
               handed == Cardinality(Places(callbacks, "finishRead", o))
    <2>6. /\ readers[o] = left[o] + held + (behind + handed)
          /\ left[o] \in Nat /\ held \in Nat /\ behind \in Nat /\ behind # 0 /\ handed \in Nat
      BY <1>5, <2>3, <2>4, <2>5
    <2> HIDE DEF held, behind, handed
    <2>7. readers[o] > 0
      BY <2>6
    <2> QED BY <1>2, <2>7 DEF Loads, LockedAreReadable
  <1> QED BY <1>4, <1>6, <1>7

\* The locks that copies into blocks need are held, behind every step.
LEMMA LoadsStayBacked == Spec => []Loads
  <1>1. IInv /\ Reads /\ Loads /\ [Next]_vars => Loads'
    BY NextLoads
  <1> QED BY <1>1, InitLoads, Invariance, ReadsHold, PTL DEF Spec

\* As long as a retrieve that will answer True has copies in a stream, the
\* objects they read are there and locked against eviction (LoadsHoldLocks),
\* whatever the reaper, other operations and the dispatcher do meanwhile.
THEOREM LoadsHoldTheirLocks == Spec => []LoadsHoldLocks
  BY Invariance, ReadsHold, LoadsStayBacked, BackedAreLocked, PTL

-----------------------------------------------------------------------------
(* The types of all of it.                                                 *)

\* The variables that neither of the invariants above says anything of.
Bounded == operations \in 0..MaxOperations /\ engineDone \subseteq Task /\ abandoned \subseteq ObjectKey

LEMMA NextBounded == IInv /\ Bounded /\ [Next]_vars => Bounded'
  <1> SUFFICES ASSUME IInv, Bounded, [Next]_vars PROVE Bounded'
    OBVIOUS
  <1>1. Control /\ TasksTyped
    BY InvariantParts, TypedParts DEF Control
  <1>2. CASE UNCHANGED <<operations, engineDone, abandoned>>
    BY <1>2 DEF Bounded
  <1>3. ASSUME NEW t \in Task, Worker(t) PROVE Bounded'
    <2>1. CASE EngineEvent(t) \/ FutureDone(t)
      BY <2>1 DEF EngineEvent, FutureDone, Bounded, taskVars, deviceVars, ghostVars
    <2>2. ASSUME NEW k \in Key, SubmitStore(t, k) \/ SubmitRetrieve(t, k) PROVE Bounded'
      <3>1. operations < MaxOperations /\ operations' = operations + 1 /\ engineDone' = engineDone \ {t}
            /\ UNCHANGED abandoned
        BY <2>2 DEF SubmitStore, SubmitRetrieve, Send, ghostVars
      <3> QED BY <3>1, ConstantsAssumption DEF Bounded
    <2> QED BY <1>3, <2>1, <2>2 DEF Worker
  <1>4. ASSUME NEW t \in Task, Resolve(t) PROVE Bounded'
    BY <1>2, <1>4 DEF Resolve, NotRegistered, Malformed, Underflow, BeginStore, BeginRetrieve, taskVars, deviceVars, ghostVars
  <1>5. ASSUME NEW t \in Task, Handle(t) PROVE Bounded'
    <2>1. CASE FinishStore(t)
      <3>1. UNCHANGED <<operations, engineDone>> /\ (abandoned' = abandoned \/ abandoned' = abandoned \cup acc[t])
        BY <2>1 DEF FinishStore
      <3> QED BY <1>1, <3>1 DEF Bounded, TasksTyped
    <2>2. CASE Handle(t) /\ ~FinishStore(t)
      BY <1>2, <2>2 DEF Handle, StoreGroup, StoreRaises, ReadMisses, LoadGroup, LoadRaises, FinishRetrieve,
         taskVars, deviceVars, ghostVars
    <2> QED BY <1>5, <2>1, <2>2
  <1>6. ASSUME NEW e \in Entry, RunStream(e) PROVE Bounded'
    BY <1>2, <1>6 DEF RunStream, PassWait, RunSave, RunOn, RunCallback, taskVars, ghostVars
  <1>7. CASE Dispatch
    BY <1>2, <1>7 DEF Dispatch, taskVars, ghostVars
  <1>8. CASE RegistryStep
    BY <1>2, <1>8 DEF RegistryStep, Lifecycle, RegisterLayout, InsertEntry, Unregister, ReapStale, ReleaseEntry,
       Evict, aside, taskVars, deviceVars, ghostVars
  <1>9. CASE UNCHANGED vars
    BY <1>2, <1>9 DEF vars, taskVars, deviceVars, ghostVars
  <1> QED BY <1>3, <1>4, <1>5, <1>6, <1>7, <1>8, <1>9 DEF Next, RegistryStep

\* Every variable has its type: no handler runs past the last group, and no layout
\* is taken back more often than it was registered.
THEOREM TypeCorrect == Spec => []TypeOK
  <1>1. Init => Bounded
    BY ConstantsAssumption DEF Init, Bounded
  <1>2. IInv /\ Bounded /\ [Next]_vars => Bounded'
    BY NextBounded
  <1>3. IInv /\ Registrations /\ Reads /\ Bounded => TypeOK
    <2> SUFFICES ASSUME IInv, Registrations, Reads, Bounded PROVE TypeOK
      OBVIOUS
    <2>1. layouts \in Nat
      <3>1. laidOut \subseteq Instance /\ releasing \in [Releaser -> SUBSET Entry] /\ LayoutsAccounted
        BY DEF Registrations
      <3>2. /\ Cardinality(Registered) \in Nat /\ Cardinality(laidOut) \in Nat
            /\ Cardinality(releasing["mainLoop"]) \in Nat /\ Cardinality(releasing["reaper"]) \in Nat
            /\ layouts = Cardinality(Registered) + Cardinality(laidOut)
                  + Cardinality(releasing["mainLoop"]) + Cardinality(releasing["reaper"])
        BY <3>1, LayoutsNat
      <3> QED BY <3>2
    <2>2. Typed
      BY DEF IInv
    <2> QED BY <2>1, <2>2 DEF Typed, Registrations, Reads, Bounded, TypeOK
  <1> QED BY <1>1, <1>2, <1>3, Invariance, RegistrationsHold, ReadsHold, PTL DEF Spec

-----------------------------------------------------------------------------
(* Copies into objects.                                                    *)

\* A callback behind position n of stream e will finish object o.
FinishedBehind(o, e, n) == \E m \in DOMAIN stream[e] : n < m /\ Carries(stream[e][m], "finishWrite", o)

\* The write locks a copy into objects needs are kept until it is done: by the
\* handler that enqueued it, by a callback behind it, or by nobody, for good.
SaveBacked(e, n) ==
    stream[e][n].kind = "save" =>
      /\ stream[e][n].task \in StoreTask
      /\ \A o \in stream[e][n].objs :
            o \in abandoned \/ ToGiveBack(o, e, stream[e][n].task) \/ FinishedBehind(o, e, n)

SavesBacked == \A e \in Entry : \A n \in DOMAIN stream[e] : SaveBacked(e, n)

\* A step that keeps the write locks of task u where they are,
HoldsOn(u) == Running(u) => Running(u)' /\ entry'[u] = entry[u] /\ acc[u] \subseteq acc'[u]

\* and one that hands them to a callback or leaves them.
LetsGo(u) ==
    \A o \in acc[u] :
        \/ o \in abandoned'
        \/ \E m \in DOMAIN stream'[entry[u]] :
             m \notin DOMAIN stream[entry[u]] /\ Carries(stream'[entry[u]][m], "finishWrite", o)

\* A step that adds to streams, if anything, what is backed.
LEMMA SavesStay ==
  ASSUME stream \in [Entry -> Seq(ItemType)], stream' \in [Entry -> Seq(ItemType)], SavesBacked,
         Longer(stream, stream'), abandoned \subseteq abandoned',
         \A u \in StoreTask : HoldsOn(u) \/ LetsGo(u),
         \A e \in Entry : \A n \in DOMAIN stream'[e] : n \notin DOMAIN stream[e] => SaveBacked(e, n)'
  PROVE  SavesBacked'
  <1> SUFFICES ASSUME NEW e \in Entry, NEW n \in DOMAIN stream'[e] PROVE SaveBacked(e, n)'
    BY DEF SavesBacked
  <1>1. CASE n \notin DOMAIN stream[e]
    BY <1>1
  <1>2. CASE n \in DOMAIN stream[e]
    <2>1. PICK item, u : item = stream[e][n] /\ u = item.task
      OBVIOUS
    <2>2. stream'[e][n] = item
      BY <1>2, <2>1 DEF Longer
    <2> SUFFICES ASSUME item.kind = "save"
                 PROVE  /\ u \in StoreTask
                        /\ \A o \in item.objs :
                             o \in abandoned' \/ ToGiveBack(o, e, u)' \/ FinishedBehind(o, e, n)'
      BY <2>1, <2>2 DEF SaveBacked, ToGiveBack, FinishedBehind, Running
    <2>3. /\ u \in StoreTask
          /\ \A o \in item.objs : o \in abandoned \/ ToGiveBack(o, e, u) \/ FinishedBehind(o, e, n)
      <3>1. SaveBacked(e, n)
        BY <1>2 DEF SavesBacked
      <3> QED BY <2>1, <3>1 DEF SaveBacked, ToGiveBack, Running
    <2>4. ASSUME NEW o \in item.objs
          PROVE  o \in abandoned' \/ ToGiveBack(o, e, u)' \/ FinishedBehind(o, e, n)'
      <3>1. CASE o \in abandoned
        BY <3>1
      <3>2. CASE FinishedBehind(o, e, n)
        BY <3>2 DEF FinishedBehind, Longer
      <3>3. CASE ToGiveBack(o, e, u) /\ HoldsOn(u)
        BY <3>3 DEF ToGiveBack, HoldsOn, Running
      <3>4. CASE ToGiveBack(o, e, u) /\ LetsGo(u) /\ o \notin abandoned'
        <4>1. PICK m \in DOMAIN stream'[e] : m \notin DOMAIN stream[e] /\ Carries(stream'[e][m], "finishWrite", o)
          BY <3>4 DEF ToGiveBack, LetsGo
        <4>2. stream[e] \in Seq(ItemType) /\ stream'[e] \in Seq(ItemType)
          OBVIOUS
        <4>3. n \in 1 .. Len(stream[e]) /\ m \notin 1 .. Len(stream[e]) /\ m \in 1 .. Len(stream'[e])
              /\ Len(stream[e]) \in Nat /\ Len(stream'[e]) \in Nat
          BY <1>2, <4>1, <4>2
        <4>4. n < m
          BY <4>3
        <4> QED BY <4>1, <4>4 DEF FinishedBehind
      <3> QED BY <2>3, <2>4, <3>1, <3>2, <3>3, <3>4
    <2> QED BY <2>3, <2>4
  <1> QED BY <1>1, <1>2

\* The first item of a stream is done.
LEMMA SavesRun ==
  ASSUME Typed, SavesBacked, NEW e \in Entry, stream[e] # <<>>,
         stream' = [stream EXCEPT ![e] = Tail(@)], UNCHANGED <<hpc, entry, acc, abandoned>>
  PROVE  SavesBacked'
  <1> SUFFICES ASSUME NEW f \in Entry, NEW n \in DOMAIN stream'[f] PROVE SaveBacked(f, n)'
    BY DEF SavesBacked
  <1>0. Before(e, f, n) \in DOMAIN stream[f] /\ stream'[f][n] = stream[f][Before(e, f, n)]
    <2>1. CASE f # e
      <3>1. stream'[f] = stream[f]
        BY <2>1, ShorterStream
      <3> QED BY <2>1, <3>1 DEF Before
    <2>2. CASE f = e
      <3>1. n + 1 \in DOMAIN stream[e] /\ stream'[e][n] = stream[e][n + 1]
        BY <2>2, ShorterStream
      <3> QED BY <2>2, <3>1 DEF Before
    <2> QED BY <2>1, <2>2
  <1>1. PICK p : p = Before(e, f, n)
    OBVIOUS
  <1>2. p \in DOMAIN stream[f] /\ stream'[f][n] = stream[f][p]
    BY <1>0, <1>1
  <1>3. SaveBacked(f, p)
    BY <1>2 DEF SavesBacked
  <1>4. ASSUME NEW o, FinishedBehind(o, f, p) PROVE FinishedBehind(o, f, n)'
    <2>1. PICK m \in DOMAIN stream[f] : p < m /\ Carries(stream[f][m], "finishWrite", o)
      BY <1>4 DEF FinishedBehind
    <2>2. CASE f # e
      <3>1. stream'[f] = stream[f] /\ p = n
        BY <1>1, <2>2, ShorterStream DEF Before
      <3> QED BY <2>1, <3>1 DEF FinishedBehind
    <2>3. CASE f = e
      <3>1. n \in Nat \ {0} /\ p = n + 1 /\ m \in Nat \ {0}
        BY <1>1, <2>3, ShorterStream DEF Before
      <3>2. m > 1 /\ n < m - 1
        BY <2>1, <3>1
      <3>3. m - 1 \in DOMAIN stream'[f] /\ stream'[f][m - 1] = stream[f][m]
        BY <2>3, <3>2, ShorterStream
      <3> QED BY <2>1, <3>2, <3>3 DEF FinishedBehind
    <2> QED BY <2>2, <2>3
  <1>5. \A o, u : ToGiveBack(o, f, u) => ToGiveBack(o, f, u)'
    BY DEF ToGiveBack, Running
  <1>6. PICK item, u : item = stream[f][p] /\ u = item.task
    OBVIOUS
  <1>7. item.kind = "save" =>
          /\ u \in StoreTask
          /\ \A o \in item.objs : o \in abandoned \/ ToGiveBack(o, f, u) \/ FinishedBehind(o, f, p)
    BY <1>3, <1>6 DEF SaveBacked, ToGiveBack, Running
  <1>8. item.kind = "save" =>
          /\ u \in StoreTask
          /\ \A o \in item.objs : o \in abandoned' \/ ToGiveBack(o, f, u)' \/ FinishedBehind(o, f, n)'
    BY <1>4, <1>5, <1>7
  <1> QED BY <1>2, <1>6, <1>8 DEF SaveBacked, ToGiveBack, FinishedBehind, Running

\* Streams that have got nothing but items of task t, of these kinds.
Added(t, kinds) ==
    /\ stream' \in [Entry -> Seq(ItemType)]
    /\ Longer(stream, stream')
    /\ \A f \in Entry : \A n \in DOMAIN stream'[f] : n \notin DOMAIN stream[f] =>
         stream'[f][n].task = t /\ stream'[f][n].kind \in kinds

\* What Enqueue adds, by task and kind.
LEMMA EnqueueAdds ==
  ASSUME Typed, NEW e \in Entry, NEW items \in Seq(ItemType), Enqueue(e, items), NEW t, NEW kinds,
         \A p \in 1 .. Len(items) : items[p].task = t /\ items[p].kind \in kinds
  PROVE  Added(t, kinds)
  <1>1. DeviceTyped
    BY TypedParts
  <1>2. /\ stream' \in [Entry -> Seq(ItemType)] /\ Longer(stream, stream')
        /\ \A f \in Entry : \A n \in DOMAIN stream'[f] : n \notin DOMAIN stream[f] =>
             f = e /\ \E p \in 1 .. Len(items) : stream'[f][n] = items[p]
    BY <1>1, EnqueueLonger
  <1> QED BY <1>2 DEF Added

LEMMA NothingAdded ==
  ASSUME Typed, UNCHANGED stream, NEW t, NEW kinds
  PROVE  Added(t, kinds)
  BY DEF Added, Longer, Typed

\* One item, or the copies of some objects, if there are any.
LEMMA CopiesAdd ==
  ASSUME Typed, NEW e \in Entry, NEW t \in Task, NEW kind \in ItemKind, NEW objs \in SUBSET ObjectKey,
         Enqueue(e, Copies(kind, t, objs)) \/ Enqueue(e, <<Item(kind, t, objs)>>)
  PROVE  Added(t, {kind}) /\ \A f \in Entry : \A n \in DOMAIN stream'[f] :
           n \notin DOMAIN stream[f] => f = e /\ stream'[f][n].objs = objs
  <1> DEFINE item == Item(kind, t, objs)
             one == <<item>>
             none == <<>>
  <1>1. item \in ItemType /\ item.task = t /\ item.kind = kind /\ item.objs = objs
    BY DEF Item, ItemType
  <1>2. Enqueue(e, one) \/ Enqueue(e, none)
    BY DEF Copies, NoItems
  <1> HIDE DEF item
  <1>3. PICK items \in {one, none} : Enqueue(e, items)
    BY <1>2
  <1>4. items \in Seq(ItemType) /\ \A p \in 1 .. Len(items) : items[p] = item
    <2>1. one \in Seq(ItemType) /\ \A p \in 1 .. Len(one) : one[p] = item
      BY <1>1
    <2>2. none \in Seq(ItemType) /\ \A p \in 1 .. Len(none) : none[p] = item
      OBVIOUS
    <2> HIDE DEF one, none
    <2> QED BY <1>3, <2>1, <2>2
  <1>5. Added(t, {kind})
    BY <1>1, <1>3, <1>4, EnqueueAdds
  <1>6. DeviceTyped
    BY TypedParts
  <1>7. \A f \in Entry : \A n \in DOMAIN stream'[f] : n \notin DOMAIN stream[f] =>
             f = e /\ \E p \in 1 .. Len(items) : stream'[f][n] = items[p]
    BY <1>3, <1>4, <1>6, EnqueueLonger
  <1> QED BY <1>1, <1>4, <1>5, <1>7

\* The event of a task with a callback behind it.
LEMMA EventAdds ==
  ASSUME Typed, NEW e \in Entry, NEW t \in Task, NEW kind \in ItemKind, NEW objs \in SUBSET ObjectKey,
         Enqueue(e, <<Item("event", t, {}), Item(kind, t, objs)>>)
  PROVE  Added(t, {"event", kind}) /\ \A o \in objs : \E m \in DOMAIN stream'[e] :
           m \notin DOMAIN stream[e] /\ Carries(stream'[e][m], kind, o)
  <1> DEFINE a == Item("event", t, {})
             b == Item(kind, t, objs)
             items == <<a, b>>
  <1>1. /\ a \in ItemType /\ a.task = t /\ a.kind = "event"
        /\ b \in ItemType /\ b.task = t /\ b.kind = kind /\ b.objs = objs
    BY DEF Item, ItemType, ItemKind
  <1>2. Enqueue(e, items)
    OBVIOUS
  <1> HIDE DEF a, b
  <1>3. items \in Seq(ItemType) /\ Len(items) = 2 /\ items[1] = a /\ items[2] = b
    BY <1>1
  <1> HIDE DEF items
  <1>4. \A p \in 1 .. Len(items) : items[p].task = t /\ items[p].kind \in {"event", kind}
    BY <1>1, <1>3
  <1>5. Added(t, {"event", kind})
    BY <1>2, <1>3, <1>4, EnqueueAdds
  <1>6. DeviceTyped
    BY TypedParts
  <1> DEFINE m == Len(stream[e]) + 2
  <1>7. m \in DOMAIN stream'[e] /\ m \notin DOMAIN stream[e] /\ stream'[e][m] = items[2]
    <2>1. 2 \in 1 .. Len(items)
      BY <1>3
    <2> QED BY <1>2, <1>3, <1>6, <2>1, EnqueueLonger
  <1> HIDE DEF m
  <1>8. \A o \in objs : Carries(stream'[e][m], kind, o)
    BY <1>1, <1>3, <1>7 DEF Carries
  <1> QED BY <1>5, <1>7, <1>8

\* What the steps of a task add to the streams.
LEMMA TaskAdds ==
  ASSUME Control, NEW t \in Task
  PROVE  /\ Worker(t) => UNCHANGED stream
         /\ Resolve(t) => Added(t, {"event", "wait"})
         /\ StoreGroup(t) \/ StoreRaises(t) => Added(t, {"save"})
         /\ FinishStore(t) => Added(t, {"event", "finishWrite"})
         /\ ReadMisses(t) \/ LoadGroup(t) \/ LoadRaises(t) => Added(t, {"load"})
         /\ FinishRetrieve(t) => Added(t, {"event", "finishRead"})
  <1>0. /\ Typed /\ {} \in SUBSET ObjectKey /\ acc[t] \in SUBSET ObjectKey /\ Wanted(t) \in SUBSET ObjectKey
        /\ {"event", "wait", "save", "load", "finishWrite", "finishRead"} \subseteq ItemKind
        /\ Running(t) => entry[t] \in Entry
    BY ResolvedEntry DEF Control, Typed, Handlers, ItemKind
  <1>1. Worker(t) => UNCHANGED stream
    BY DEF Worker, SubmitStore, SubmitRetrieve, Send, EngineEvent, FutureDone, deviceVars
  <1>2. ASSUME Resolve(t) PROVE Added(t, {"event", "wait"})
    <2>1. CASE UNCHANGED stream
      BY <1>0, <2>1, NothingAdded
    <2>2. CASE Underflow(t) \/ BeginStore(t)
      <3>1. contexts[InstanceOf[t]] \in Entry
        BY <1>0, <2>2, ResolvedEntry DEF Underflow, BeginStore, Resolved
      <3>2. PICK kind \in {"event", "wait"} : Enqueue(contexts[InstanceOf[t]], <<Item(kind, t, {})>>)
        BY <2>2 DEF Underflow, BeginStore
      <3>3. Added(t, {kind})
        BY <1>0, <3>1, <3>2, CopiesAdd
      <3> QED BY <3>3 DEF Added
    <2> QED BY <1>2, <2>1, <2>2 DEF Resolve, NotRegistered, Malformed, BeginRetrieve, deviceVars
  <1>3. ASSUME StoreGroup(t) \/ StoreRaises(t) PROVE Added(t, {"save"})
    <2>1. PICK objs \in SUBSET ObjectKey : Enqueue(entry[t], Copies("save", t, objs))
      BY <1>3 DEF StoreGroup, StoreRaises
    <2>2. Running(t)
      BY <1>3 DEF StoreGroup, StoreRaises, Running
    <2> QED BY <1>0, <2>1, <2>2, CopiesAdd
  <1>4. ASSUME FinishStore(t) PROVE Added(t, {"event", "finishWrite"})
    <2>1. Running(t)
      BY <1>4 DEF FinishStore, Running
    <2>2. CASE Enqueue(entry[t], <<Item("event", t, {}), Item("finishWrite", t, acc[t])>>)
      BY <1>0, <2>1, <2>2, EventAdds
    <2>3. CASE Enqueue(entry[t], <<Item("event", t, {})>>)
      <3>1. Added(t, {"event"})
        BY <1>0, <2>1, <2>3, CopiesAdd
      <3> QED BY <3>1 DEF Added
    <2> QED BY <1>4, <2>2, <2>3 DEF FinishStore
  <1>5. ASSUME ReadMisses(t) \/ LoadGroup(t) \/ LoadRaises(t) PROVE Added(t, {"load"})
    <2>1. Running(t)
      BY <1>5 DEF ReadMisses, LoadGroup, LoadRaises, Found, Running
    <2>2. CASE ReadMisses(t)
      BY <1>0, <2>2, NothingAdded DEF ReadMisses, deviceVars
    <2>3. CASE LoadGroup(t) \/ LoadRaises(t)
      <3>1. PICK objs \in SUBSET ObjectKey : Enqueue(entry[t], Copies("load", t, objs))
        BY <1>0, <2>3 DEF LoadGroup, LoadRaises
      <3> QED BY <1>0, <2>1, <3>1, CopiesAdd
    <2> QED BY <1>5, <2>2, <2>3
  <1>6. ASSUME FinishRetrieve(t) PROVE Added(t, {"event", "finishRead"})
    <2> DEFINE a == Item("event", t, {})
               b == Item("finishRead", t, acc[t])
    <2>1. Running(t) /\ Enqueue(entry[t], <<a>> \o Copies("finishRead", t, acc[t]))
      BY <1>6 DEF FinishRetrieve, Running
    <2>2. a \in ItemType /\ b \in ItemType
      BY <1>0 DEF Item, ItemType
    <2>3. Enqueue(entry[t], <<a>>) \/ Enqueue(entry[t], <<a, b>>)
      BY <2>1, <2>2, Pair DEF Copies, NoItems
    <2>4. CASE Enqueue(entry[t], <<a, b>>)
      BY <1>0, <2>1, <2>4, EventAdds
    <2>5. CASE Enqueue(entry[t], <<a>>)
      <3>1. Added(t, {"event"})
        BY <1>0, <2>1, <2>5, CopiesAdd
      <3> QED BY <3>1 DEF Added
    <2> QED BY <2>3, <2>4, <2>5
  <1> QED BY <1>1, <1>2, <1>3, <1>4, <1>5, <1>6

\* The tasks whose handler a step does not touch.
LEMMA OthersStay ==
  ASSUME Control, NEW t \in Task, Worker(t) \/ Resolve(t) \/ Handle(t)
  PROVE  \A u \in Task : u # t => hpc'[u] = hpc[u] /\ entry'[u] = entry[u] /\ acc'[u] = acc[u] /\ ok'[u] = ok[u]
  <1>1. TasksTyped
    BY TypedParts DEF Control
  <1>2. CASE Worker(t)
    BY <1>1, <1>2 DEF TasksTyped, Worker, SubmitStore, SubmitRetrieve, Send, EngineEvent, FutureDone, handlerVars
  <1>3. CASE Resolve(t)
    BY <1>1, <1>3 DEF TasksTyped, Resolve, NotRegistered, Malformed, Underflow, BeginStore, BeginRetrieve, Answer
  <1>4. CASE Handle(t)
    BY <1>1, <1>4 DEF TasksTyped, Handle, StoreGroup, StoreRaises, FinishStore, ReadMisses, LoadGroup, LoadRaises,
       FinishRetrieve, Miss, GoOn, Answer
  <1> QED BY <1>2, <1>3, <1>4

\* A store holds its write locks until it ends, and then lets go of them.
LEMMA StoresHold ==
  ASSUME Control, NEW t \in Task, Worker(t) \/ Resolve(t) \/ Handle(t)
  PROVE  /\ abandoned \subseteq abandoned'
         /\ \A u \in StoreTask : HoldsOn(u) \/ LetsGo(u)
  <1>1. TasksTyped /\ Typed /\ Handlers
    BY TypedParts DEF Control
  <1>2. abandoned \subseteq abandoned'
    BY DEF Worker, SubmitStore, SubmitRetrieve, Send, EngineEvent, FutureDone, ghostVars,
       Resolve, NotRegistered, Malformed, Underflow, BeginStore, BeginRetrieve,
       Handle, StoreGroup, StoreRaises, FinishStore, ReadMisses, LoadGroup, LoadRaises, FinishRetrieve
  <1>3. \A u \in StoreTask : u # t => HoldsOn(u)
    BY OthersStay DEF StoreTask, HoldsOn, Running
  <1>4. ASSUME t \in StoreTask PROVE HoldsOn(t) \/ LetsGo(t)
    <2>1. CASE Worker(t) \/ Resolve(t)
      <3>1. ~Running(t) \/ UNCHANGED handlerVars \/ (UNCHANGED <<hpc, entry, acc>>)
        BY <1>1, <2>1 DEF Worker, SubmitStore, SubmitRetrieve, Send, EngineEvent, FutureDone,
           Resolve, NotRegistered, Malformed, Underflow, BeginStore, BeginRetrieve, Resolved, Handlers, Running
      <3> QED BY <3>1 DEF HoldsOn, Running, handlerVars
    <2>2. CASE StoreGroup(t) \/ StoreRaises(t)
      BY <1>1, <2>2 DEF StoreGroup, StoreRaises, GoOn, HoldsOn, Running, TasksTyped
    <2>3. CASE FinishStore(t)
      <3>1. Running(t) /\ entry[t] \in Entry /\ acc[t] \in SUBSET ObjectKey /\ "finishWrite" \in ItemKind
        BY <1>1, <2>3 DEF FinishStore, Running, Handlers, TasksTyped, ItemKind
      <3>2. CASE Enqueue(entry[t], <<Item("event", t, {}), Item("finishWrite", t, acc[t])>>)
        BY <1>1, <3>1, <3>2, EventAdds DEF LetsGo
      <3>3. CASE abandoned' = abandoned \cup acc[t]
        BY <3>3 DEF LetsGo
      <3> QED BY <2>3, <3>2, <3>3 DEF FinishStore
    <2>4. CASE ReadMisses(t) \/ LoadGroup(t) \/ LoadRaises(t) \/ FinishRetrieve(t)
      BY <1>1, <1>4, <2>4 DEF ReadMisses, LoadGroup, LoadRaises, Found, FinishRetrieve, Handlers, StoreTask
    <2> QED BY <2>1, <2>2, <2>3, <2>4 DEF Handle
  <1> QED BY <1>2, <1>3, <1>4

\* Every step keeps the locks of the copies into objects.
LEMMA NextSaves == IInv /\ SavesBacked /\ [Next]_vars => SavesBacked'
  <1> SUFFICES ASSUME IInv, SavesBacked, [Next]_vars PROVE SavesBacked'
    OBVIOUS
  <1>1. Control /\ Typed /\ TasksTyped /\ DeviceTyped /\ stream \in [Entry -> Seq(ItemType)]
    BY InvariantParts, TypedParts DEF Control, DeviceTyped
  <1>2. CASE UNCHANGED <<stream, handlerVars, abandoned>>
    BY <1>2 DEF SavesBacked, SaveBacked, ToGiveBack, FinishedBehind, Running, handlerVars
  <1>3. ASSUME NEW t \in Task, Worker(t) \/ Resolve(t) \/ Handle(t) PROVE SavesBacked'
    <2>1. PICK kinds : Added(t, kinds) /\ (StoreGroup(t) \/ StoreRaises(t) \/ "save" \notin kinds)
      BY <1>1, <1>3, TaskAdds, NothingAdded DEF Handle
    <2>2. ASSUME StoreGroup(t) \/ StoreRaises(t), NEW e \in Entry, NEW n \in DOMAIN stream'[e], n \notin DOMAIN stream[e]
          PROVE  SaveBacked(e, n)'
      <3>1. PICK objs \in SUBSET ObjectKey : Enqueue(entry[t], Copies("save", t, objs)) /\ objs \subseteq acc'[t]
        <4>1. PICK given \in SUBSET ObjectKey : \E copied \in SUBSET given :
                /\ acc' = [acc EXCEPT ![t] = @ \cup given]
                /\ Enqueue(entry[t], Copies("save", t, copied))
          BY <2>2 DEF StoreGroup, StoreRaises
        <4>2. given \subseteq acc'[t]
          BY <1>1, <4>1 DEF TasksTyped
        <4> QED BY <4>1, <4>2
      <3>2. Running(t) /\ Running(t)' /\ entry' = entry /\ entry[t] \in Entry /\ t \in StoreTask /\ "save" \in ItemKind
        BY <1>1, <2>2 DEF StoreGroup, StoreRaises, GoOn, Running, Control, Handlers, TasksTyped, ItemKind
      <3>3. e = entry[t] /\ stream'[e][n].objs = objs /\ stream'[e][n].task = t
        <4>1. \A f \in Entry : \A m \in DOMAIN stream'[f] :
                m \notin DOMAIN stream[f] => f = entry[t] /\ stream'[f][m].objs = objs
          BY <1>1, <3>1, <3>2, CopiesAdd
        <4> QED BY <2>1, <2>2, <4>1 DEF Added
      <3> QED BY <3>1, <3>2, <3>3 DEF SaveBacked, ToGiveBack, Running
    <2>3. ASSUME "save" \notin kinds, NEW e \in Entry, NEW n \in DOMAIN stream'[e], n \notin DOMAIN stream[e]
          PROVE  SaveBacked(e, n)'
      BY <2>1, <2>3 DEF Added, SaveBacked
    <2>4. /\ stream' \in [Entry -> Seq(ItemType)] /\ Longer(stream, stream')
          /\ abandoned \subseteq abandoned' /\ \A u \in StoreTask : HoldsOn(u) \/ LetsGo(u)
      BY <1>1, <1>3, <2>1, StoresHold DEF Added
    <2> QED BY <1>1, <2>1, <2>2, <2>3, <2>4, SavesStay
  <1>4. ASSUME NEW e \in Entry, RunStream(e) PROVE SavesBacked'
    <2>1. /\ stream[e] # <<>> /\ stream' = [stream EXCEPT ![e] = Tail(@)]
          /\ UNCHANGED <<hpc, entry, acc, abandoned>>
      BY <1>4 DEF RunStream, PassWait, RunSave, RunOn, RunCallback, Runs, handlerVars, ghostVars
    <2> QED BY <1>1, <2>1, SavesRun
  <1>5. CASE Dispatch
    BY <1>1, <1>2, <1>5, DispatchFacts DEF Dispatch, ghostVars
  <1>6. CASE RegistryStep
    <2>1. UNCHANGED abandoned
      BY <1>6 DEF RegistryStep, Lifecycle, RegisterLayout, InsertEntry, Unregister, ReapStale, ReleaseEntry,
         Evict, aside, ghostVars
    <2> QED BY <1>2, <1>6, <2>1, RegistryFacts
  <1>7. CASE UNCHANGED vars
    BY <1>2, <1>7 DEF vars, deviceVars, ghostVars
  <1> QED BY <1>3, <1>4, <1>5, <1>6, <1>7 DEF Next, RegistryStep

\* Nothing is enqueued at the beginning.
LEMMA InitSaves == Init => SavesBacked
  <1>1. Init => \A e \in Entry : stream[e] = <<>>
    BY DEF Init
  <1> QED BY <1>1 DEF SavesBacked

\* What is copied into is write-locked.
LEMMA SavesAreLocked ==
  ASSUME IInv, WriteLocksOwned, SavesBacked, NEW e \in Entry, NEW n \in DOMAIN stream[e], stream[e][n].kind = "save"
  PROVE  \A o \in stream[e][n].objs : obj[o] = "writing"
  <1> SUFFICES ASSUME NEW o \in stream[e][n].objs PROVE obj[o] = "writing"
    OBVIOUS
  <1>1. Control /\ DeviceTyped /\ stream \in [Entry -> Seq(ItemType)] /\ Locked
    BY InvariantParts, TypedParts DEF Control, DeviceTyped, IInv
  <1>2. o \in ObjectKey
    BY <1>1, ItemsTyped
  <1>3. PICK t : t = stream[e][n].task
    OBVIOUS
  <1>4. t \in StoreTask /\ (o \in abandoned \/ ToGiveBack(o, e, t) \/ FinishedBehind(o, e, n))
    <2>1. SaveBacked(e, n)
      BY DEF SavesBacked
    <2> QED BY <1>3, <2>1 DEF SaveBacked, ToGiveBack, Running
  <1>5. CASE o \in abandoned
    <2>1. /\ One(obj[o] = "writing") = One(o \in abandoned) + Cardinality(Reserving(o)) + Awaits("finishWrite", o)
          /\ Cardinality(Reserving(o)) \in Nat /\ Awaits("finishWrite", o) \in Nat
      BY <1>1, <1>2, WriteCounts
    <2>2. One(o \in abandoned) = 1
      BY <1>5 DEF One
    <2>3. One(obj[o] = "writing") # 0
      BY <2>1, <2>2
    <2> QED BY <2>3 DEF One
  <1>6. CASE ToGiveBack(o, e, t)
    BY <1>1, <1>4, <1>6 DEF ToGiveBack, Locked
  <1>7. CASE FinishedBehind(o, e, n)
    BY <1>1, <1>7 DEF FinishedBehind, Carries, Locked, Writes
  <1> QED BY <1>4, <1>5, <1>6, <1>7

-----------------------------------------------------------------------------
(* The refinement of ObjectCache.                                          *)

Cached == {o \in ObjectKey : obj[o] = "readable"}
Reading == [t \in RetrieveTask |-> CopiesFrom(t)]

\* The properties above, before and after a step, are what the cache needs.
Guarded == IInv /\ LoadsHoldLocks

\* The variables of the cache, by the names they have here.
LEMMA CacheVars ==
  /\ Cache!vars = <<Cached, written, Reading>>
  /\ Cache!vars' = <<Cached', written', Reading'>>
  BY DEF Cache!vars, Cached, Reading

\* Objects a retrieve is to copy from are cached, and locked.
LEMMA ReadersAreCached ==
  /\ LoadsHoldLocks => \A t \in RetrieveTask : \A o \in CopiesFrom(t) : o \in Cached /\ readers[o] > 0
  /\ LoadsHoldLocks' => \A t \in RetrieveTask : \A o \in CopiesFrom(t)' : o \in Cached'
  BY DEF LoadsHoldLocks, CopiesFrom, Cached

\* The copies a step leaves to the readers, when all it adds is items of task t.
LEMMA AddedCopies ==
  ASSUME NEW t, NEW kinds, Added(t, kinds), NEW u \in RetrieveTask
  PROVE  /\ (u # t \/ "load" \notin kinds) /\ (ok'[u] => ok[u]) => CopiesFrom(u)' \subseteq CopiesFrom(u)
         /\ (ok[u] => ok'[u]) => CopiesFrom(u) \subseteq CopiesFrom(u)'
  <1>1. ASSUME u # t \/ "load" \notin kinds, ok'[u] => ok[u], NEW o \in CopiesFrom(u)' PROVE o \in CopiesFrom(u)
    <2>0. PICK e \in Entry : \E n \in DOMAIN stream'[e] :
            stream'[e][n].kind = "load" /\ stream'[e][n].task = u /\ o \in stream'[e][n].objs
      BY <1>1 DEF CopiesFrom
    <2>1. PICK n \in DOMAIN stream'[e] :
            stream'[e][n].kind = "load" /\ stream'[e][n].task = u /\ o \in stream'[e][n].objs
      BY <2>0
    <2>2. n \in DOMAIN stream[e]
      BY <1>1, <2>1 DEF Added
    <2>3. stream'[e][n] = stream[e][n]
      BY <2>2 DEF Added, Longer
    <2> QED BY <1>1, <2>1, <2>2, <2>3 DEF CopiesFrom
  <1>2. ASSUME ok[u] => ok'[u], NEW o \in CopiesFrom(u) PROVE o \in CopiesFrom(u)'
    <2>0. PICK e \in Entry : \E n \in DOMAIN stream[e] :
            stream[e][n].kind = "load" /\ stream[e][n].task = u /\ o \in stream[e][n].objs
      BY <1>2 DEF CopiesFrom
    <2>1. PICK n \in DOMAIN stream[e] :
            stream[e][n].kind = "load" /\ stream[e][n].task = u /\ o \in stream[e][n].objs
      BY <2>0
    <2>2. n \in DOMAIN stream'[e] /\ stream'[e][n] = stream[e][n]
      BY <2>1 DEF Added, Longer
    <2> QED BY <1>2, <2>1, <2>2 DEF CopiesFrom
  <1> QED BY <1>1, <1>2

\* The copies that are left when the first item of a stream is done.
LEMMA RunCopies ==
  ASSUME Typed, NEW e \in Entry, stream[e] # <<>>, stream' = [stream EXCEPT ![e] = Tail(@)],
         UNCHANGED ok, NEW u \in RetrieveTask
  PROVE  /\ CopiesFrom(u)' \subseteq CopiesFrom(u)
         /\ Head(stream[e]).kind # "load" \/ Head(stream[e]).task # u => CopiesFrom(u)' = CopiesFrom(u)
  <1>1. ASSUME NEW o \in CopiesFrom(u)' PROVE o \in CopiesFrom(u)
    <2>0. PICK f \in Entry : \E n \in DOMAIN stream'[f] :
            stream'[f][n].kind = "load" /\ stream'[f][n].task = u /\ o \in stream'[f][n].objs
      BY <1>1 DEF CopiesFrom
    <2>1. PICK n \in DOMAIN stream'[f] :
            stream'[f][n].kind = "load" /\ stream'[f][n].task = u /\ o \in stream'[f][n].objs
      BY <2>0
    <2>2. \E p \in DOMAIN stream[f] : stream'[f][n] = stream[f][p]
      <3>1. CASE f # e
        BY <3>1, ShorterStream
      <3>2. CASE f = e
        BY <3>2, ShorterStream
      <3> QED BY <3>1, <3>2
    <2> QED BY <1>1, <2>1, <2>2 DEF CopiesFrom
  <1>2. ASSUME Head(stream[e]).kind # "load" \/ Head(stream[e]).task # u, NEW o \in CopiesFrom(u)
        PROVE  o \in CopiesFrom(u)'
    <2>0. PICK f \in Entry : \E n \in DOMAIN stream[f] :
            stream[f][n].kind = "load" /\ stream[f][n].task = u /\ o \in stream[f][n].objs
      BY <1>2 DEF CopiesFrom
    <2>1. PICK n \in DOMAIN stream[f] :
            stream[f][n].kind = "load" /\ stream[f][n].task = u /\ o \in stream[f][n].objs
      BY <2>0
    <2>2. \E p \in DOMAIN stream'[f] : stream'[f][p] = stream[f][n]
      <3>1. CASE f # e
        BY <3>1, ShorterStream
      <3>2. CASE f = e
        <4>1. n \in Nat \ {0} /\ n # 1
          BY <1>2, <2>1, <3>2, ShorterStream
        <4>2. n > 1
          BY <4>1
        <4>3. n - 1 \in DOMAIN stream'[e] /\ stream'[e][n - 1] = stream[e][n]
          BY <3>2, <4>2, ShorterStream
        <4> QED BY <3>2, <4>3
      <3> QED BY <3>1, <3>2
    <2> QED BY <1>2, <2>1, <2>2 DEF CopiesFrom
  <1> QED BY <1>1, <1>2

\* One reader begins, ends, or goes on as it was; the others do not move.
LEMMA ReadingRefines ==
  ASSUME Guarded', UNCHANGED <<obj, written>>, NEW t,
         \A u \in RetrieveTask : u # t => CopiesFrom(u)' = CopiesFrom(u),
         t \in RetrieveTask => CopiesFrom(t)' \subseteq CopiesFrom(t) \/ CopiesFrom(t) \subseteq CopiesFrom(t)'
  PROVE  Cache!Next \/ UNCHANGED Cache!vars
  <1>1. Cached' = Cached /\ written' = written
    BY DEF Cached
  <1>2. CASE t \notin RetrieveTask
    <2>1. Reading' = Reading
      BY <1>2 DEF Reading
    <2> QED BY <1>1, <2>1, CacheVars
  <1>3. CASE t \in RetrieveTask /\ CopiesFrom(t) \subseteq CopiesFrom(t)'
    <2>1. Reading' = [Reading EXCEPT ![t] = @ \cup CopiesFrom(t)']
      BY <1>3 DEF Reading
    <2>2. CopiesFrom(t)' \in SUBSET Cached
      BY <1>1, <1>3, ReadersAreCached DEF Guarded
    <2>3. Cache!BeginRead(t)
      BY <1>1, <2>1, <2>2 DEF Cache!BeginRead, Cached, Reading
    <2> QED BY <1>3, <2>3 DEF Cache!Next
  <1>4. CASE t \in RetrieveTask /\ CopiesFrom(t)' \subseteq CopiesFrom(t)
    <2>1. Reading' = [Reading EXCEPT ![t] = CopiesFrom(t)']
      BY <1>4 DEF Reading
    <2>2. CopiesFrom(t)' \in SUBSET Reading[t]
      BY <1>4 DEF Reading
    <2>3. Cache!EndRead(t)
      BY <1>1, <2>1, <2>2 DEF Cache!EndRead, Cached, Reading
    <2> QED BY <1>4, <2>3 DEF Cache!Next
  <1> QED BY <1>2, <1>3, <1>4

\* A step that leaves everybody's copies as they are.
LEMMA StorageRefines ==
  ASSUME Guarded, Guarded', \A u \in RetrieveTask : CopiesFrom(u)' = CopiesFrom(u),
         \/ UNCHANGED <<obj, written>>
         \/ /\ \A o \in ObjectKey : obj'[o] = obj[o] \/ (obj[o] # "readable" /\ obj'[o] # "readable")
            /\ \E S \in SUBSET ObjectKey :
                 written' = written \cup S /\ \A o \in S : obj[o] # "readable"
         \/ /\ \A o \in ObjectKey : obj[o] = "readable" => obj'[o] = "readable"
            /\ UNCHANGED written
         \/ \E o \in ObjectKey : Unlocked(o) /\ Drop({o})
  PROVE  Cache!Next \/ UNCHANGED Cache!vars
  <1>0. Reading' = Reading
    BY DEF Reading
  <1>1. CASE UNCHANGED <<obj, written>>
    BY <1>0, <1>1, CacheVars DEF Cached
  <1>2. CASE /\ \A o \in ObjectKey : obj'[o] = obj[o] \/ (obj[o] # "readable" /\ obj'[o] # "readable")
             /\ \E S \in SUBSET ObjectKey :
                  written' = written \cup S /\ \A o \in S : obj[o] # "readable"
    <2>1. PICK S \in SUBSET ObjectKey : written' = written \cup S /\ \A o \in S : obj[o] # "readable"
      BY <1>2
    <2>2. Cached' = Cached
      BY <1>2 DEF Cached
    <2>3. S \in SUBSET (ObjectKey \ Cached)
      BY <2>1 DEF Cached
    <2>4. Cache!Fill
      BY <1>0, <2>1, <2>2, <2>3 DEF Cache!Fill, Cached, Reading
    <2> QED BY <2>4 DEF Cache!Next
  <1>3. CASE /\ \A o \in ObjectKey : obj[o] = "readable" => obj'[o] = "readable"
             /\ UNCHANGED written
    <2>1. Cached' = Cached \cup Cached'
      BY <1>3 DEF Cached
    <2>2. Cached' \in SUBSET written
      BY <1>3 DEF Guarded, IInv, CopiesFirst, PublishedIsCopied, Cached
    <2>3. Cache!Publish
      BY <1>0, <1>3, <2>1, <2>2 DEF Cache!Publish, Cached, Reading
    <2> QED BY <2>3 DEF Cache!Next
  <1>4. ASSUME NEW o \in ObjectKey, Unlocked(o), Drop({o})
        PROVE  Cache!Next \/ UNCHANGED Cache!vars
    <2>1. Cached' = Cached \ {o} /\ written' = written \ {o}
      BY <1>4 DEF Drop, Cached
    <2>2. \A r \in RetrieveTask : o \notin CopiesFrom(r)
      BY <1>4, ReadersAreCached DEF Guarded, Unlocked
    <2>3. \A r \in RetrieveTask : o \notin Reading[r]
      BY <2>2 DEF Reading
    <2>4. Cache!Evict(o)
      BY <1>0, <2>1, <2>3 DEF Cache!Evict, Cached, Reading
    <2> QED BY <2>4 DEF Cache!Next
  <1> QED BY <1>1, <1>2, <1>3, <1>4

\* A request is sent, resolved or over: a reader has nothing to copy yet, or
\* nothing any more.
LEMMA RequestRefines ==
  ASSUME Guarded, Guarded', Loads, NEW t \in Task, Worker(t) \/ Resolve(t)
  PROVE  Cache!Next \/ UNCHANGED Cache!vars
  <1>1. Control /\ Typed /\ TasksTyped /\ EventCoversCopies
    BY InvariantParts, TypedParts, IdleHasNoCopies DEF Control, Guarded
  <1>2. UNCHANGED <<obj, written>>
    BY DEF Worker, SubmitStore, SubmitRetrieve, EngineEvent, FutureDone, Resolve, NotRegistered, Malformed,
       Underflow, BeginStore, BeginRetrieve, storageVars
  <1>3. Added(t, {"event", "wait"})
    BY <1>1, TaskAdds, NothingAdded
  <1>4. \A u \in RetrieveTask : u # t => CopiesFrom(u)' = CopiesFrom(u)
    <2> SUFFICES ASSUME NEW u \in RetrieveTask, u # t PROVE CopiesFrom(u)' = CopiesFrom(u)
      OBVIOUS
    <2>1. ok'[u] = ok[u]
      BY <1>1, OthersStay, ConstantsAssumption
    <2> QED BY <1>3, <2>1, AddedCopies
  <1>5. ASSUME t \in RetrieveTask PROVE CopiesFrom(t)' \subseteq CopiesFrom(t)
    <2>1. CASE ok'[t] => ok[t]
      BY <1>3, <1>5, <2>1, AddedCopies
    <2>2. CASE BeginRetrieve(t)
      <3>1. hpc[t] = "queued" /\ UNCHANGED stream
        BY <2>2 DEF BeginRetrieve, Resolved, deviceVars
      <3>2. NoLoads(t)
        BY <3>1 DEF NoLoads, Loads, LoadsBacked, ItemBacked
      <3> QED BY <3>1, <3>2 DEF NoLoads, CopiesFrom
    <2>3. CASE ~BeginRetrieve(t)
      <3>1. ok'[t] => ok[t]
        BY <1>1, <2>3 DEF TasksTyped, Worker, SubmitStore, SubmitRetrieve, Send, EngineEvent, FutureDone, handlerVars,
           Resolve, NotRegistered, Malformed, Underflow, BeginStore
      <3> QED BY <2>1, <3>1
    <2> QED BY <2>2, <2>3
  <1> QED BY <1>2, <1>4, <1>5, ReadingRefines

\* A store reserves what nobody can hit; a retrieve has more to copy, or what
\* it has copied does not count any more.
LEMMA HandlerRefines ==
  ASSUME Guarded, Guarded', Loads, NEW t \in Task, Handle(t)
  PROVE  Cache!Next \/ UNCHANGED Cache!vars
  <1>1. Control /\ Typed /\ TasksTyped /\ Handlers
    BY InvariantParts, TypedParts DEF Control, Guarded
  <1>2. UNCHANGED written
    BY DEF Handle, StoreGroup, StoreRaises, FinishStore, ReadMisses, LoadGroup, LoadRaises, FinishRetrieve, storageVars
  <1>3. PICK kinds : Added(t, kinds) /\ (FinishRetrieve(t) => "load" \notin kinds)
    BY <1>1, TaskAdds DEF Handle
  <1>4. \A u \in RetrieveTask : u # t => CopiesFrom(u)' = CopiesFrom(u)
    <2> SUFFICES ASSUME NEW u \in RetrieveTask, u # t PROVE CopiesFrom(u)' = CopiesFrom(u)
      OBVIOUS
    <2>1. ok'[u] = ok[u]
      BY <1>1, OthersStay, ConstantsAssumption
    <2> QED BY <1>3, <2>1, AddedCopies
  <1>5. CASE StoreGroup(t) \/ StoreRaises(t)
    <2>1. t \notin RetrieveTask
      BY <1>1, <1>5 DEF StoreGroup, StoreRaises, Handlers, StoreTask
    <2>2. \A o \in ObjectKey : obj'[o] = obj[o] \/ (obj[o] # "readable" /\ obj'[o] # "readable")
      <3>1. PICK given \in SUBSET Reservable(Wanted(t)) :
              obj' = [o \in ObjectKey |-> IF o \in given THEN "writing" ELSE obj[o]]
        BY <1>5 DEF StoreGroup, StoreRaises, Granted
      <3> QED BY <3>1 DEF Reservable
    <2>3. \E S \in SUBSET ObjectKey : written' = written \cup S /\ \A o \in S : obj[o] # "readable"
      <3> WITNESS {} \in SUBSET ObjectKey
      <3> QED BY <1>2
    <2> QED BY <1>4, <2>1, <2>2, <2>3, StorageRefines
  <1>6. CASE FinishStore(t)
    <2>1. UNCHANGED obj /\ t \notin RetrieveTask
      BY <1>6 DEF FinishStore, storageVars, StoreTask
    <2> QED BY <1>2, <1>4, <2>1, ReadingRefines
  <1>7. CASE ReadMisses(t) \/ LoadRaises(t)
    <2>1. UNCHANGED obj /\ ~ok'[t]
      BY <1>1, <1>7 DEF ReadMisses, LoadRaises, Miss, TasksTyped
    <2>2. CopiesFrom(t)' \subseteq CopiesFrom(t)
      BY <2>1 DEF CopiesFrom
    <2> QED BY <1>2, <1>4, <2>1, <2>2, ReadingRefines
  <1>8. CASE LoadGroup(t)
    <2>1. UNCHANGED obj
      BY <1>8 DEF LoadGroup, storageVars
    <2>2. ok'[t]
      BY <1>1, <1>8 DEF LoadGroup, Found, GoOn, TasksTyped, Handlers, Loads, LoadingIsGood
    <2>3. t \in RetrieveTask => CopiesFrom(t) \subseteq CopiesFrom(t)'
      BY <1>3, <2>2, AddedCopies
    <2> QED BY <1>2, <1>4, <2>1, <2>3, ReadingRefines
  <1>9. CASE FinishRetrieve(t)
    <2>1. UNCHANGED <<obj, ok>>
      BY <1>9 DEF FinishRetrieve, storageVars
    <2>2. t \in RetrieveTask => CopiesFrom(t)' \subseteq CopiesFrom(t)
      BY <1>3, <1>9, <2>1, AddedCopies
    <2> QED BY <1>2, <1>4, <2>1, <2>2, ReadingRefines
  <1> QED BY <1>5, <1>6, <1>7, <1>8, <1>9 DEF Handle

\* A stream fills what nobody can hit, or is done with a copy into blocks.
LEMMA StreamRefines ==
  ASSUME Guarded, Guarded', WriteLocksOwned, SavesBacked, NEW e \in Entry, RunStream(e)
  PROVE  Cache!Next \/ UNCHANGED Cache!vars
  <1>1. Control /\ Typed
    BY InvariantParts DEF Control, Guarded
  <1>2. /\ stream[e] # <<>> /\ stream' = [stream EXCEPT ![e] = Tail(@)] /\ UNCHANGED <<obj, ok>>
    BY <1>1, RunFacts DEF handlerVars
  <1>3. PICK t : t = Head(stream[e]).task
    OBVIOUS
  <1>4. CASE RunSave(e)
    <2>1. Head(stream[e]).kind = "save" /\ written' = written \cup Head(stream[e]).objs
      BY <1>4 DEF RunSave, Runs
    <2>2. \A u \in RetrieveTask : CopiesFrom(u)' = CopiesFrom(u)
      BY <1>1, <1>2, <2>1, RunCopies
    <2>3. 1 \in DOMAIN stream[e] /\ Head(stream[e]) = stream[e][1] /\ Head(stream[e]).objs \in SUBSET ObjectKey
      BY <1>1, <1>2, ShorterStream DEF ItemType
    <2>4. \A o \in Head(stream[e]).objs : obj[o] = "writing"
      BY <2>1, <2>3, SavesAreLocked DEF Guarded
    <2>5. \E S \in SUBSET ObjectKey : written' = written \cup S /\ \A o \in S : obj[o] # "readable"
      BY <2>1, <2>3, <2>4
    <2> QED BY <1>2, <2>2, <2>5, StorageRefines
  <1>5. CASE ~RunSave(e)
    <2>1. UNCHANGED written
      BY <1>5 DEF RunStream, PassWait, RunOn, RunCallback, storageVars
    <2>2. \A u \in RetrieveTask : CopiesFrom(u)' \subseteq CopiesFrom(u)
      BY <1>1, <1>2, RunCopies
    <2>3. \A u \in RetrieveTask : u # t => CopiesFrom(u)' = CopiesFrom(u)
      BY <1>1, <1>2, <1>3, RunCopies
    <2> QED BY <1>2, <2>1, <2>2, <2>3, ReadingRefines
  <1> QED BY <1>4, <1>5

\* Every step is a step of the cache or changes nothing of it.
LEMMA StepRefines ==
  Guarded /\ Guarded' /\ Loads /\ WriteLocksOwned /\ SavesBacked /\ [Next]_vars => [Cache!Next]_Cache!vars
  <1> SUFFICES ASSUME Guarded, Guarded', Loads, WriteLocksOwned, SavesBacked, [Next]_vars
               PROVE  Cache!Next \/ UNCHANGED Cache!vars
    OBVIOUS
  <1>1. Control
    BY InvariantParts DEF Guarded
  <1>2. ASSUME UNCHANGED <<stream, handlerVars>> PROVE \A u \in RetrieveTask : CopiesFrom(u)' = CopiesFrom(u)
    BY <1>2 DEF CopiesFrom, handlerVars
  <1>3. ASSUME NEW t \in Task, Worker(t) \/ Resolve(t) \/ Handle(t)
        PROVE  Cache!Next \/ UNCHANGED Cache!vars
    BY <1>3, RequestRefines, HandlerRefines
  <1>4. ASSUME NEW e \in Entry, RunStream(e)
        PROVE  Cache!Next \/ UNCHANGED Cache!vars
    BY <1>4, StreamRefines
  <1>5. CASE Dispatch
    <2>1. \A u \in RetrieveTask : CopiesFrom(u)' = CopiesFrom(u)
      BY <1>1, <1>2, <1>5, DispatchFacts
    <2>2. /\ \A o \in ObjectKey : obj[o] = "readable" => obj'[o] = "readable"
          /\ UNCHANGED written
      BY <1>1, <1>5, DispatchFacts
    <2> QED BY <2>1, <2>2, StorageRefines
  <1>6. CASE RegistryStep
    <2>1. \A u \in RetrieveTask : CopiesFrom(u)' = CopiesFrom(u)
      BY <1>2, <1>6, RegistryFacts
    <2>2. UNCHANGED <<obj, written>> \/ \E o \in ObjectKey : Unlocked(o) /\ Drop({o})
      BY <1>6, RegistryFacts
    <2> QED BY <2>1, <2>2, StorageRefines
  <1>7. CASE UNCHANGED vars
    <2>1. UNCHANGED <<stream, handlerVars, obj, written>>
      BY <1>7 DEF vars, deviceVars, storageVars
    <2> QED BY <1>2, <2>1, StorageRefines
  <1> QED BY <1>3, <1>4, <1>5, <1>6, <1>7 DEF Next, RegistryStep

\* LMCache-driven transfers implement ObjectCache: streams, handlers and
\* callbacks of all instances, with the reaper and operations that fail at any
\* point, fill only what nobody can hit, publish only what is filled, and let
\* nothing go that a retrieve is still to copy from (CacheSpec).
THEOREM ImplementsCache == Spec => CacheSpec
  <1>1. Init => Cache!Init
    <2> SUFFICES ASSUME Init PROVE Cache!Init
      OBVIOUS
    <2>1. Cached = {} /\ written = {}
      BY DEF Init, Cached
    <2>2. Reading = [t \in RetrieveTask |-> {}]
      BY DEF Init, Reading, CopiesFrom
    <2> QED BY <2>1, <2>2 DEF Cache!Init, Cached, Reading
  <1>2. Guarded /\ Guarded' /\ Loads /\ WriteLocksOwned /\ SavesBacked /\ [Next]_vars => [Cache!Next]_Cache!vars
    BY StepRefines
  <1>3. IInv /\ LoadsHoldLocks => Guarded
    BY DEF Guarded
  <1>4. IInv /\ SavesBacked /\ [Next]_vars => SavesBacked'
    BY NextSaves
  <1>5. Spec => []SavesBacked
    BY <1>4, InitSaves, Invariance, PTL DEF Spec
  <1>6. Spec => []Guarded
    BY <1>3, Invariance, LoadsHoldTheirLocks, PTL
  <1> QED BY <1>1, <1>2, <1>5, <1>6, LoadsStayBacked, WriteLocksAreOwned, PTL DEF Spec, CacheSpec, Cache!Spec
=============================================================================
