----------------------------- MODULE SkillProofs -----------------------------
(***************************************************************************)
(* For any number of threads and session keys and any bound MaxHooks: a    *)
(* ledger of the OpenClaw skill is exported exactly once, and the file     *)
(* verifies if the hooks of its session never overlapped.                  *)
(***************************************************************************)
EXTENDS Skill, SessionProofs

-----------------------------------------------------------------------------
(* The inductive invariant.                                                *)

Labels == {"idle", "create", "lookup", "reset", "open", "record", "close", "pop", "export"}

\* The labels at which a hook holds a ledger.
Holding == {"reset", "open", "record", "close", "export"}

\* An entry of objects, whatever its ledger has become.
IsObject(o) == o = [key |-> o.key, ledger |-> o.ledger] /\ o.key \in SessionKeys

\* objects is a sequence of them.
AreObjects(s) ==
    /\ IsSeq(s)
    /\ \A i \in DOMAIN s : IsObject(s[i])

LedgerTypes ==
    /\ AreObjects(objects)
    /\ registry \in [SessionKeys -> 0..Len(objects)]
    /\ \A k \in SessionKeys : registry[k] # 0 => objects[registry[k]].key = k
    /\ \A e \in exports : e.object \in 1..Len(objects)

HookTypes ==
    /\ pc \in [Threads -> Labels]
    /\ ref \in [Threads -> 0..Len(objects)]
    /\ call = [t \in Threads |-> call[t]]
    /\ \A t \in Threads : pc[t] # "idle" => call[t].key \in SessionKeys
    /\ \A t \in Threads : pc[t] \in Holding => ref[t] # 0

Types == LedgerTypes /\ HookTypes

Registered(n) == registry[objects[n].key] = n
Holders(n) == {t \in Threads : pc[t] = "export" /\ ref[t] = n}
Files(n) == {e \in exports : e.object = n}

\* A ledger is in the registry, with one thread that exports it, or in one file.
OnePlace(n) ==
    \/ Registered(n) /\ Holders(n) = {} /\ Files(n) = {}
    \/ ~Registered(n) /\ Files(n) = {} /\ \E t \in Threads : Holders(n) = {t}
    \/ ~Registered(n) /\ Holders(n) = {} /\ \E e \in exports : Files(n) = {e}

Placed == \A n \in 1..Len(objects) : OnePlace(n)

Inv == Types /\ Placed

-----------------------------------------------------------------------------
(* Sequences of objects.                                                   *)

LEMMA ObjectsDomain ==
    ASSUME NEW s, AreObjects(s)
    PROVE  Len(s) \in Nat /\ DOMAIN s = 1..Len(s)
BY SeqDomain DEF AreObjects

\* _get_or_create_ledger adds a ledger under the next number.
LEMMA ObjectAdded ==
    ASSUME NEW s, AreObjects(s), NEW o, IsObject(o)
    PROVE  /\ AreObjects(Append(s, o))
           /\ Len(Append(s, o)) = Len(s) + 1
           /\ \A i \in 1..Len(s) : Append(s, o)[i] = s[i]
           /\ Append(s, o)[Len(s) + 1] = o
<1>1. IsSeq(s) /\ DOMAIN s = 1..Len(s) /\ Len(s) \in Nat
  BY ObjectsDomain DEF AreObjects
<1>2. /\ IsSeq(Append(s, o)) /\ Len(Append(s, o)) = Len(s) + 1
      /\ \A i \in 1..Len(s) : Append(s, o)[i] = s[i]
      /\ Append(s, o)[Len(s) + 1] = o
  BY <1>1, Appending
<1>3. DOMAIN Append(s, o) = 1..(Len(s) + 1)
  BY <1>2, SeqDomain
<1>4. \A i \in DOMAIN Append(s, o) : IsObject(Append(s, o)[i])
  BY <1>1, <1>2, <1>3 DEF AreObjects
<1>. QED BY <1>2, <1>4 DEF AreObjects

\* A sequence of the same length whose entries are objects with the same keys.
LEMMA SameKeys ==
    ASSUME NEW s, AreObjects(s), NEW w, w = [i \in DOMAIN s |-> w[i]],
           \A i \in DOMAIN s : IsObject(w[i])
    PROVE  AreObjects(w) /\ Len(w) = Len(s)
<1>1. Len(s) \in Nat /\ DOMAIN s = 1..Len(s)
  BY ObjectsDomain
<1>2. w = [i \in 1..Len(s) |-> w[i]]
  BY <1>1
<1>3. IsSeq(w) /\ Len(w) = Len(s)
  BY <1>1, <1>2, FunctionIsSequence
<1>. QED BY <1>1, <1>2, <1>3 DEF AreObjects

-----------------------------------------------------------------------------
(* The types.                                                              *)

LEMMA InitTypes == Init => Types
<1>. SUFFICES ASSUME Init PROVE Types
  OBVIOUS
<1>1. AreObjects(objects) /\ Len(objects) = 0
  BY DEF Init, AreObjects, IsSeq
<1>. QED BY <1>1 DEF Init, Types, LedgerTypes, HookTypes, Labels, Holding, NoCall

\* What a step of a hook does to its locals.
Moves(t, label, n, c) ==
    /\ pc' = [pc EXCEPT ![t] = label] /\ label \in Labels
    /\ ref' = [ref EXCEPT ![t] = n]
    /\ call' = [call EXCEPT ![t] = c]
    /\ label # "idle" => c.key \in SessionKeys
    /\ label \in Holding => n # 0

LEMMA HookStep ==
    ASSUME Types, Len(objects') \in Nat, Len(objects) <= Len(objects'), NEW t \in Threads,
           NEW label, NEW n \in 0..Len(objects'), NEW c, Moves(t, label, n, c)
    PROVE  HookTypes'
<1>. DEFINE N == Len(objects)
            M == Len(objects')
<1>1. N \in Nat /\ M \in Nat /\ N <= M /\ n \in 0..M
  BY ObjectsDomain DEF Types, LedgerTypes
<1>2. ref \in [Threads -> 0..N]
  BY DEF Types, HookTypes
<1>. HIDE DEF N, M
<1>3. ref' \in [Threads -> 0..M]
  BY <1>1, <1>2 DEF Moves
<1>4. pc' \in [Threads -> Labels]
  BY DEF Types, HookTypes, Moves
<1>5. call' = [u \in Threads |-> call'[u]]
  BY DEF Types, HookTypes, Moves
<1>6. \A u \in Threads : pc'[u] # "idle" => call'[u].key \in SessionKeys
  BY DEF Types, HookTypes, Moves
<1>7. \A u \in Threads : pc'[u] \in Holding => ref'[u] # 0
  BY DEF Types, HookTypes, Moves
<1>. QED BY <1>3, <1>4, <1>5, <1>6, <1>7 DEF HookTypes, M

\* A local assigned its own value.
LEMMA LocalsKept ==
    ASSUME Types, NEW t \in Threads
    PROVE  /\ Len(objects) \in Nat
           /\ call = [call EXCEPT ![t] = call[t]]
           /\ ref = [ref EXCEPT ![t] = ref[t]]
           /\ ref[t] \in 0..Len(objects)
BY ObjectsDomain DEF Types, LedgerTypes, HookTypes

LEMMA BeginTypes ==
    ASSUME Types, NEW t \in Threads, NEW k \in SessionKeys, NEW h \in Hooks, Begin(t, k, h)
    PROVE  Types'
<1>. DEFINE c == [id |-> hooks + 1, key |-> k, hook |-> h]
            label == IF h = "on_session_start" THEN "create" ELSE "lookup"
<1>1. /\ pc' = [pc EXCEPT ![t] = label] /\ label \in Labels /\ label \notin Holding
      /\ call' = [call EXCEPT ![t] = c] /\ c.key \in SessionKeys
      /\ UNCHANGED <<registry, objects, exports, ref>>
  BY DEF Begin, Goto, Labels, Holding
<1>2. LedgerTypes'
  BY <1>1 DEF Types, LedgerTypes, AreObjects, IsObject
<1>. HIDE DEF c, label
<1>3. Moves(t, label, ref[t], c)
  BY <1>1, LocalsKept DEF Moves
<1>4. HookTypes'
  BY <1>1, <1>3, HookStep, LocalsKept
<1>. QED BY <1>2, <1>4 DEF Types

LEMMA LookupTypes ==
    ASSUME Types, NEW t \in Threads, Lookup(t)
    PROVE  Types'
<1>. DEFINE n == registry[call[t].key]
            label == IF call[t].hook = "on_session_end" THEN IF n = 0 THEN "pop" ELSE "close"
                     ELSE IF n = 0 THEN "create" ELSE "record"
<1>1. call[t].key \in SessionKeys
  BY DEF Lookup, Types, HookTypes
<1>2. n \in 0..Len(objects)
  BY <1>1 DEF Types, LedgerTypes
<1>3. label \in Labels /\ (label \in Holding => n # 0)
  BY DEF Labels, Holding
<1>4. /\ pc' = [pc EXCEPT ![t] = label] /\ ref' = [ref EXCEPT ![t] = n]
      /\ UNCHANGED <<registry, objects, exports, call>>
  BY DEF Lookup, Goto, Hold
<1>5. LedgerTypes'
  BY <1>4 DEF Types, LedgerTypes, AreObjects, IsObject
<1>. HIDE DEF n, label
<1>6. Moves(t, label, n, call[t])
  BY <1>1, <1>3, <1>4, LocalsKept DEF Moves
<1>7. HookTypes'
  BY <1>2, <1>4, <1>6, HookStep, LocalsKept
<1>. QED BY <1>5, <1>7 DEF Types

LEMMA GetOrCreateTypes ==
    ASSUME Types, NEW t \in Threads, GetOrCreate(t)
    PROVE  /\ Types'
           /\ \/ UNCHANGED <<objects, registry>>
              \/ /\ registry[call[t].key] = 0
                 /\ registry' = [registry EXCEPT ![call[t].key] = Len(objects) + 1]
                 /\ Len(objects') = Len(objects) + 1
                 /\ \A i \in 1..Len(objects) : objects'[i] = objects[i]
                 /\ objects'[Len(objects) + 1].key = call[t].key
<1>. DEFINE k == call[t].key
            o == NewObject(call[t])
<1>1. /\ k \in SessionKeys /\ UNCHANGED <<exports, call>>
      /\ pc' = [pc EXCEPT ![t] = "reset"] /\ "reset" \in Labels
  BY DEF GetOrCreate, Types, HookTypes, Goto, Labels
<1>2. CASE registry[k] # 0
  <2>1. /\ UNCHANGED <<objects, registry>> /\ ref' = [ref EXCEPT ![t] = registry[k]]
        /\ registry[k] \in 0..Len(objects)
    BY <1>1, <1>2 DEF GetOrCreate, Types, LedgerTypes, Hold
  <2>2. LedgerTypes'
    BY <1>1, <2>1 DEF Types, LedgerTypes, AreObjects, IsObject
  <2>3. Moves(t, "reset", registry[k], call[t])
    BY <1>1, <1>2, <2>1, LocalsKept DEF Moves
  <2>4. HookTypes'
    BY <2>1, <2>3, HookStep, LocalsKept
  <2>. QED BY <2>1, <2>2, <2>4 DEF Types
<1>3. CASE registry[k] = 0
  <2>1. IsObject(o) /\ o.key = k
    BY <1>1 DEF NewObject, IsObject
  <2>2. /\ objects' = Append(objects, o)
        /\ registry' = [registry EXCEPT ![k] = Len(objects) + 1]
        /\ ref' = [ref EXCEPT ![t] = Len(objects) + 1]
    BY <1>3 DEF GetOrCreate, Hold
  <2>3. AreObjects(objects) /\ Len(objects) \in Nat
    BY ObjectsDomain DEF Types, LedgerTypes
  <2>. HIDE DEF o
  <2>4. /\ AreObjects(objects') /\ Len(objects') = Len(objects) + 1
        /\ \A i \in 1..Len(objects) : objects'[i] = objects[i]
        /\ objects'[Len(objects) + 1] = o
    BY <2>1, <2>2, <2>3, ObjectAdded
  <2>. HIDE DEF k
  <2>5. registry' \in [SessionKeys -> 0..Len(objects')]
    BY <1>1, <2>2, <2>3, <2>4 DEF Types, LedgerTypes
  <2>6. \A j \in SessionKeys : registry'[j] # 0 => objects'[registry'[j]].key = j
    BY <1>1, <2>1, <2>2, <2>3, <2>4 DEF Types, LedgerTypes
  <2>7. \A e \in exports' : e.object \in 1..Len(objects')
    BY <1>1, <2>3, <2>4 DEF Types, LedgerTypes
  <2>8. Moves(t, "reset", Len(objects) + 1, call[t])
    BY <1>1, <2>2, <2>3, LocalsKept DEF Moves, k
  <2>9. HookTypes'
    BY <2>3, <2>4, <2>8, HookStep
  <2>. QED BY <1>3, <2>1, <2>2, <2>4, <2>5, <2>6, <2>7, <2>9 DEF Types, LedgerTypes, k
<1>. QED BY <1>2, <1>3

\* pop takes the ledger out of the registry, if it has one.
LEMMA PopTypes ==
    ASSUME Types, NEW t \in Threads, Pop(t)
    PROVE  /\ Types' /\ UNCHANGED <<objects, exports>> /\ pc[t] = "pop"
           /\ call[t].key \in SessionKeys
           /\ registry' = [registry EXCEPT ![call[t].key] = 0]
           /\ \A u \in Threads \ {t} : pc'[u] = pc[u] /\ ref'[u] = ref[u]
           /\ IF registry[call[t].key] = 0 THEN pc'[t] = "idle"
              ELSE pc'[t] = "export" /\ ref'[t] = registry[call[t].key]
<1>. DEFINE n == registry[call[t].key]
<1>1. /\ pc[t] = "pop" /\ call[t].key \in SessionKeys
      /\ registry' = [registry EXCEPT ![call[t].key] = 0] /\ UNCHANGED <<objects, exports>>
      /\ n \in 0..Len(objects)
  BY DEF Pop, Types, LedgerTypes, HookTypes
<1>2. LedgerTypes'
  BY <1>1, LocalsKept DEF Types, LedgerTypes, AreObjects, IsObject
<1>3. CASE n = 0
  <2>1. /\ pc' = [pc EXCEPT ![t] = "idle"] /\ "idle" \in Labels /\ "idle" \notin Holding
        /\ ref' = [ref EXCEPT ![t] = 0] /\ call' = [call EXCEPT ![t] = NoCall]
    BY <1>3 DEF Pop, Return, Goto, Hold, Labels, Holding
  <2>2. Moves(t, "idle", 0, NoCall)
    BY <2>1 DEF Moves
  <2>3. HookTypes'
    BY <1>1, <2>2, HookStep, LocalsKept
  <2>. QED BY <1>1, <1>2, <1>3, <2>1, <2>3 DEF Types, HookTypes
<1>4. CASE n # 0
  <2>1. /\ pc' = [pc EXCEPT ![t] = "export"] /\ "export" \in Labels
        /\ ref' = [ref EXCEPT ![t] = n] /\ UNCHANGED call
    BY <1>4 DEF Pop, Goto, Hold, Labels
  <2>2. Moves(t, "export", n, call[t])
    BY <1>1, <1>4, <2>1, LocalsKept DEF Moves
  <2>3. HookTypes'
    BY <1>1, <2>2, HookStep, LocalsKept
  <2>. QED BY <1>1, <1>2, <1>4, <2>1, <2>3 DEF Types, HookTypes
<1>. QED BY <1>3, <1>4

LEMMA ExportTypes ==
    ASSUME Types, NEW t \in Threads, Export(t)
    PROVE  /\ Types' /\ UNCHANGED <<registry, objects>>
           /\ pc[t] = "export" /\ ref[t] \in 1..Len(objects)
           /\ pc' = [pc EXCEPT ![t] = "idle"]
           /\ \A u \in Threads \ {t} : ref'[u] = ref[u]
           /\ \E e : e.object = ref[t] /\ exports' = exports \cup {e}
<1>1. pc[t] = "export" /\ ref[t] \in 1..Len(objects)
  BY LocalsKept DEF Export, Types, HookTypes, Holding
<1>2. /\ UNCHANGED <<registry, objects>>
      /\ pc' = [pc EXCEPT ![t] = "idle"] /\ "idle" \in Labels /\ "idle" \notin Holding
      /\ ref' = [ref EXCEPT ![t] = 0] /\ call' = [call EXCEPT ![t] = NoCall]
  BY DEF Export, Return, Goto, Hold, Labels, Holding
<1>3. \E e : e.object = ref[t] /\ exports' = exports \cup {e}
  BY DEF Export
<1>4. LedgerTypes'
  BY <1>1, <1>2, <1>3 DEF Types, LedgerTypes, AreObjects, IsObject
<1>5. Moves(t, "idle", 0, NoCall)
  BY <1>2 DEF Moves
<1>6. HookTypes'
  BY <1>2, <1>5, HookStep, LocalsKept
<1>. QED BY <1>1, <1>2, <1>3, <1>4, <1>6 DEF Types, HookTypes

\* A step that writes to the held ledger, not the one that exports it.
Writes(t, l, label, n, c) ==
    /\ objects' = [objects EXCEPT ![ref[t]] = [objects[ref[t]] EXCEPT !.ledger = l]]
    /\ UNCHANGED <<registry, exports>>
    /\ Moves(t, label, n, c) /\ label # "export" /\ n \in {0, ref[t]}

LEMMA WritesTypes ==
    ASSUME Types, NEW t \in Threads, pc[t] \in Holding,
           NEW l, NEW label, NEW n, NEW c, Writes(t, l, label, n, c)
    PROVE  /\ Types'
           /\ Len(objects') = Len(objects)
           /\ \A i \in 1..Len(objects) : objects'[i].key = objects[i].key
<1>. DEFINE r == ref[t]
            o == [objects[r] EXCEPT !.ledger = l]
<1>1. /\ AreObjects(objects) /\ DOMAIN objects = 1..Len(objects) /\ Len(objects) \in Nat
      /\ r \in 1..Len(objects)
  BY ObjectsDomain DEF Types, LedgerTypes, HookTypes
<1>2. IsObject(objects[r])
  BY <1>1 DEF AreObjects
<1>3. IsObject(o) /\ o.key = objects[r].key
  BY <1>2 DEF IsObject
<1>4. objects' = [objects EXCEPT ![r] = o]
  BY DEF Writes
<1>. HIDE DEF r, o
<1>5. \A i \in DOMAIN objects : objects'[i] = IF i = r THEN o ELSE objects[i]
  BY ONLY <1>4
<1>6. \A i \in DOMAIN objects : IsObject(objects'[i]) /\ objects'[i].key = objects[i].key
  BY ONLY <1>1, <1>3, <1>5 DEF AreObjects
<1>7. objects' = [i \in DOMAIN objects |-> objects'[i]]
  BY ONLY <1>1, <1>4 DEF AreObjects
<1>8. AreObjects(objects') /\ Len(objects') = Len(objects)
  BY ONLY <1>1, <1>6, <1>7, SameKeys
<1>9. LedgerTypes'
  BY <1>1, <1>6, <1>8 DEF Types, LedgerTypes, Writes
<1>10. Moves(t, label, n, c) /\ n \in 0..Len(objects')
  BY <1>1, <1>8 DEF Writes, r
<1>11. HookTypes'
  BY <1>1, <1>8, <1>10, HookStep
<1>. QED BY <1>1, <1>6, <1>8, <1>9, <1>11 DEF Types

\* What such a step changes.
LEMMA WriteSteps ==
    ASSUME Types, NEW t \in Threads,
           Reset(t) \/ WriteStart(t) \/ WriteEvent(t) \/ WriteEnd(t)
    PROVE  /\ Types'
           /\ Len(objects') = Len(objects)
           /\ \A i \in 1..Len(objects) : objects'[i].key = objects[i].key
           /\ UNCHANGED <<registry, exports>>
           /\ pc[t] # "export" /\ pc'[t] # "export"
           /\ \A u \in Threads \ {t} : pc'[u] = pc[u] /\ ref'[u] = ref[u]
<1>1. pc[t] \in Holding \ {"export"} /\ call[t].key \in SessionKeys /\ ref[t] # 0
  BY DEF Reset, WriteStart, WriteEvent, WriteEnd, Types, HookTypes, Holding
<1>2. call = [call EXCEPT ![t] = call[t]] /\ ref = [ref EXCEPT ![t] = ref[t]]
  BY LocalsKept
<1>3. \E l, label, n, c : Writes(t, l, label, n, c)
  <2>1. CASE Reset(t)
    <3>1. \E l : Writes(t, l, "open", ref[t], call[t])
      BY <1>1, <1>2, <2>1 DEF Writes, Moves, Reset, Goto, Labels, Holding
    <3>. QED BY <3>1
  <2>2. CASE WriteStart(t) /\ call[t].hook = "on_session_start"
    <3>1. \E l : Writes(t, l, "idle", 0, NoCall)
      BY <1>1, <2>2 DEF Writes, Moves, WriteStart, Write, Return, Goto, Hold, Labels, Holding
    <3>. QED BY <3>1
  <2>3. CASE WriteStart(t) /\ call[t].hook # "on_session_start"
    <3>1. \E l : Writes(t, l, "record", ref[t], call[t])
      BY <1>1, <1>2, <2>3 DEF Writes, Moves, WriteStart, Write, Goto, Labels, Holding
    <3>. QED BY <3>1
  <2>4. CASE WriteEvent(t)
    <3>1. \E l : Writes(t, l, "idle", 0, NoCall)
      BY <1>1, <2>4 DEF Writes, Moves, WriteEvent, Write, Return, Goto, Hold, Labels, Holding
    <3>. QED BY <3>1
  <2>5. CASE WriteEnd(t)
    <3>1. \E l : Writes(t, l, "pop", ref[t], call[t])
      BY <1>1, <1>2, <2>5 DEF Writes, Moves, WriteEnd, Write, Goto, Labels, Holding
    <3>. QED BY <3>1
  <2>. QED BY <2>1, <2>2, <2>3, <2>4, <2>5
<1>4. PICK l, label, n, c : Writes(t, l, label, n, c)
  BY <1>3
<1>5. /\ Types'
      /\ Len(objects') = Len(objects)
      /\ \A i \in 1..Len(objects) : objects'[i].key = objects[i].key
  BY <1>1, <1>4, WritesTypes
<1>. QED BY <1>1, <1>4, <1>5 DEF Types, HookTypes, Writes, Moves

LEMMA TypesStep == Types /\ [Next]_vars => Types'
<1>. SUFFICES ASSUME Types, [Next]_vars PROVE Types'
  OBVIOUS
<1>1. CASE UNCHANGED vars
  BY <1>1 DEF vars, gateway, locals, Types, LedgerTypes, HookTypes, AreObjects, IsObject
<1>2. ASSUME NEW t \in Threads, NEW k \in SessionKeys, NEW h \in Hooks, Begin(t, k, h)
      PROVE  Types'
  BY <1>2, BeginTypes
<1>3. ASSUME NEW t \in Threads, Hook(t)
      PROVE  Types'
  BY <1>3, LookupTypes, GetOrCreateTypes, PopTypes, ExportTypes, WriteSteps DEF Hook
<1>. QED BY <1>1, <1>2, <1>3 DEF Next

-----------------------------------------------------------------------------
(* The place of a ledger.                                                  *)

LEMMA Keys ==
    ASSUME Types, NEW n \in 1..Len(objects)
    PROVE  Len(objects) \in Nat /\ objects[n].key \in SessionKeys
BY ObjectsDomain DEF Types, LedgerTypes, AreObjects, IsObject

\* Steps that move no ledger.
LEMMA PlacedKept ==
    ASSUME Placed, Len(objects') = Len(objects),
           \A n \in 1..Len(objects) : objects'[n].key = objects[n].key,
           UNCHANGED <<registry, exports>>,
           \A u \in Threads : /\ pc'[u] = "export" <=> pc[u] = "export"
                              /\ pc[u] = "export" => ref'[u] = ref[u]
    PROVE  Placed'
<1>1. ASSUME NEW n \in 1..Len(objects)
      PROVE  OnePlace(n)'
  <2>1. Holders(n)' = Holders(n)
    BY DEF Holders
  <2>2. Files(n)' = Files(n)
    BY DEF Files
  <2>3. Registered(n)' <=> Registered(n)
    BY DEF Registered
  <2>. HIDE DEF Holders, Files, Registered
  <2>. QED BY <2>1, <2>2, <2>3 DEF Placed, OnePlace
<1>. QED BY <1>1 DEF Placed

LEMMA CreatePlaces ==
    ASSUME Types, Placed, NEW t \in Threads, GetOrCreate(t)
    PROVE  Placed'
<1>1. /\ pc[t] = "create" /\ UNCHANGED <<exports, call>>
      /\ pc' = [pc EXCEPT ![t] = "reset"]
      /\ \A u \in Threads \ {t} : pc'[u] = pc[u] /\ ref'[u] = ref[u]
  BY DEF GetOrCreate, Goto, Hold, Types, HookTypes
<1>2. pc'[t] = "reset"
  BY <1>1 DEF Types, HookTypes
<1>3. CASE UNCHANGED <<objects, registry>>
  BY <1>1, <1>2, <1>3, PlacedKept
<1>4. CASE ~UNCHANGED <<objects, registry>>
  <2>. PICK N : N = Len(objects)
    OBVIOUS
  <2>. PICK k : k = call[t].key
    OBVIOUS
  <2>1. /\ registry[k] = 0 /\ registry' = [registry EXCEPT ![k] = N + 1]
        /\ Len(objects') = N + 1
        /\ \A i \in 1..N : objects'[i] = objects[i]
        /\ objects'[N + 1].key = k
    BY <1>4, GetOrCreateTypes
  <2>2. N \in Nat /\ k \in SessionKeys /\ registry \in [SessionKeys -> 0..N]
    BY <1>1, LocalsKept DEF Types, LedgerTypes, HookTypes
  <2>3. /\ \A u \in Threads : ref[u] \in 0..N
        /\ \A e \in exports : e.object \in 1..N
        /\ \A n \in 1..N : objects[n].key \in SessionKeys
    BY Keys DEF Types, LedgerTypes, HookTypes
  <2>4. ASSUME NEW n \in 1..N
        PROVE  OnePlace(n)'
    <3>1. Holders(n)' = Holders(n)
      BY <1>1, <1>2 DEF Holders
    <3>2. Files(n)' = Files(n)
      BY <1>1 DEF Files
    <3>3. Registered(n)' <=> Registered(n)
      BY <2>1, <2>2, <2>3 DEF Registered
    <3>4. OnePlace(n)
      BY DEF Placed
    <3>. QED BY <1>1, <3>1, <3>2, <3>3, <3>4 DEF OnePlace
  <2>5. OnePlace(N + 1)'
    <3>1. Holders(N + 1)' = {}
      BY <1>1, <1>2, <2>2, <2>3 DEF Holders
    <3>2. Files(N + 1)' = {}
      BY <1>1, <2>2, <2>3 DEF Files
    <3>3. Registered(N + 1)'
      BY <2>1, <2>2 DEF Registered
    <3>. QED BY <3>1, <3>2, <3>3 DEF OnePlace
  <2>. QED BY <2>1, <2>2, <2>4, <2>5 DEF Placed
<1>. QED BY <1>3, <1>4

LEMMA PopPlaces ==
    ASSUME Types, Placed, NEW t \in Threads, Pop(t)
    PROVE  Placed'
<1>. PICK m : m = registry[call[t].key]
  OBVIOUS
<1>1. /\ UNCHANGED <<objects, exports>> /\ pc[t] = "pop"
      /\ call[t].key \in SessionKeys
      /\ registry' = [registry EXCEPT ![call[t].key] = 0]
      /\ \A u \in Threads \ {t} : pc'[u] = pc[u] /\ ref'[u] = ref[u]
      /\ IF m = 0 THEN pc'[t] = "idle" ELSE pc'[t] = "export" /\ ref'[t] = m
  BY PopTypes
<1>2. /\ registry \in [SessionKeys -> 0..Len(objects)] /\ Len(objects) \in Nat
      /\ m # 0 => objects[m].key = call[t].key
  BY <1>1, LocalsKept DEF Types, LedgerTypes
<1>3. CASE m = 0
  <2>1. registry' = registry
    BY <1>1, <1>2, <1>3
  <2>. QED BY <1>1, <1>3, <2>1, PlacedKept
<1>4. CASE m # 0
  <2>1. m \in 1..Len(objects)
    BY <1>1, <1>2, <1>4
  <2>2. Registered(m) /\ Holders(m) = {} /\ Files(m) = {}
    <3>1. Registered(m)
      BY <1>2, <1>4 DEF Registered
    <3>. QED BY <2>1, <3>1 DEF Placed, OnePlace
  <2>3. OnePlace(m)'
    <3>1. Holders(m)' = {t}
      BY <1>1, <1>4, <2>2 DEF Holders
    <3>2. Files(m)' = {}
      BY <1>1, <2>2 DEF Files
    <3>3. ~Registered(m)'
      BY <1>1, <1>2, <1>4 DEF Registered
    <3>. QED BY <3>1, <3>2, <3>3 DEF OnePlace
  <2>4. ASSUME NEW n \in 1..Len(objects), n # m
        PROVE  OnePlace(n)'
    <3>1. Holders(n)' = Holders(n)
      BY <1>1, <1>4, <2>4 DEF Holders
    <3>2. Files(n)' = Files(n)
      BY <1>1 DEF Files
    <3>3. Registered(n)' <=> Registered(n)
      BY <1>1, <1>2, <2>4, Keys DEF Registered
    <3>4. OnePlace(n)
      BY DEF Placed
    <3>. QED BY <1>1, <3>1, <3>2, <3>3, <3>4 DEF OnePlace
  <2>. QED BY <1>1, <2>3, <2>4 DEF Placed
<1>. QED BY <1>3, <1>4

LEMMA ExportPlaces ==
    ASSUME Types, Placed, NEW t \in Threads, Export(t)
    PROVE  Placed'
<1>. PICK m : m = ref[t]
  OBVIOUS
<1>1. /\ UNCHANGED <<registry, objects>>
      /\ pc[t] = "export" /\ m \in 1..Len(objects)
      /\ pc' = [pc EXCEPT ![t] = "idle"]
      /\ \A u \in Threads \ {t} : ref'[u] = ref[u]
  BY ExportTypes
<1>2. pc'[t] = "idle" /\ \A u \in Threads \ {t} : pc'[u] = pc[u]
  BY <1>1 DEF Types, HookTypes
<1>3. PICK e : e.object = m /\ exports' = exports \cup {e}
  BY ExportTypes
<1>4. ~Registered(m) /\ Files(m) = {} /\ Holders(m) = {t}
  <2>1. t \in Holders(m)
    BY <1>1 DEF Holders
  <2>. QED BY <1>1, <2>1 DEF Placed, OnePlace
<1>5. OnePlace(m)'
  <2>1. Holders(m)' = {}
    BY <1>1, <1>2, <1>4 DEF Holders
  <2>2. Files(m)' = {e}
    BY <1>3, <1>4 DEF Files
  <2>3. ~Registered(m)'
    BY <1>1, <1>4 DEF Registered
  <2>. QED BY <2>1, <2>2, <2>3, <1>3 DEF OnePlace
<1>6. ASSUME NEW n \in 1..Len(objects), n # m
      PROVE  OnePlace(n)'
  <2>1. Holders(n)' = Holders(n)
    BY <1>1, <1>2, <1>6 DEF Holders
  <2>2. Files(n)' = Files(n)
    BY <1>3, <1>6 DEF Files
  <2>3. Registered(n)' <=> Registered(n)
    BY <1>1 DEF Registered
  <2>4. OnePlace(n)
    BY DEF Placed
  <2>. QED BY <1>3, <2>1, <2>2, <2>3, <2>4 DEF OnePlace
<1>. QED BY <1>1, <1>5, <1>6 DEF Placed

LEMMA InvStep == Inv /\ [Next]_vars => Inv'
<1>. SUFFICES ASSUME Types, Placed, [Next]_vars PROVE Placed'
  BY TypesStep DEF Inv
<1>1. CASE UNCHANGED vars
  BY <1>1, PlacedKept DEF vars, gateway, locals
<1>2. ASSUME NEW t \in Threads, NEW k \in SessionKeys, NEW h \in Hooks, Begin(t, k, h)
      PROVE  Placed'
  <2>1. /\ UNCHANGED <<registry, objects, exports, ref>> /\ pc[t] = "idle"
        /\ \A u \in Threads : IF u = t THEN pc'[u] # "export" ELSE pc'[u] = pc[u]
    BY <1>2 DEF Begin, Goto, Types, HookTypes
  <2>. QED BY <2>1, PlacedKept
<1>3. ASSUME NEW t \in Threads, Hook(t)
      PROVE  Placed'
  <2>1. CASE Lookup(t)
    <3>1. /\ UNCHANGED <<registry, objects, exports>> /\ pc[t] = "lookup"
          /\ \A u \in Threads : IF u = t THEN pc'[u] # "export"
                                 ELSE pc'[u] = pc[u] /\ ref'[u] = ref[u]
      BY <2>1 DEF Lookup, Goto, Hold, Types, HookTypes
    <3>. QED BY <3>1, PlacedKept
  <2>2. CASE Reset(t) \/ WriteStart(t) \/ WriteEvent(t) \/ WriteEnd(t)
    BY <2>2, WriteSteps, PlacedKept
  <2>. QED BY <1>3, <2>1, <2>2, CreatePlaces, PopPlaces, ExportPlaces DEF Hook
<1>. QED BY <1>1, <1>2, <1>3 DEF Next

LEMMA InvHolds == Spec => []Inv
<1>1. Init => Inv
  BY InitTypes, ObjectsDomain DEF Init, Inv, Placed, AreObjects
<1>. QED BY <1>1, InvStep, PTL DEF Spec

-----------------------------------------------------------------------------
(* The theorem.                                                            *)

\* However many gateway threads run the hooks of however many sessions, every ledger
\* the skill ever made is registered, held by the one hook that will export it, or
\* in exactly one exported file: no ledger is lost and none is exported twice.
THEOREM EveryLedgerExportedOnce == Spec => []ExportedExactlyOnce
<1>1. Inv => ExportedExactlyOnce
  <2>. SUFFICES ASSUME Inv, NEW n \in DOMAIN objects
                PROVE  Cardinality(Holders(n)) + Cardinality(Files(n))
                         = IF Registered(n) THEN 0 ELSE 1
    BY DEF ExportedExactlyOnce, Holders, Files, Registered
  <2>1. OnePlace(n)
    BY ObjectsDomain DEF Inv, Types, LedgerTypes, Placed
  <2>2. Cardinality({}) = 0
    BY FS_EmptySet
  <2>3. ASSUME NEW x PROVE Cardinality({x}) = 1
    BY FS_Singleton
  <2>4. CASE Registered(n) /\ Holders(n) = {} /\ Files(n) = {}
    BY <2>2, <2>4
  <2>5. CASE ~Registered(n) /\ Files(n) = {} /\ \E t \in Threads : Holders(n) = {t}
    <3>1. Cardinality(Holders(n)) = 1
      BY <2>3, <2>5
    <3>. QED BY <2>2, <2>5, <3>1
  <2>6. CASE ~Registered(n) /\ Holders(n) = {} /\ \E e \in exports : Files(n) = {e}
    <3>1. Cardinality(Files(n)) = 1
      BY <2>3, <2>6
    <3>. QED BY <2>2, <2>6, <3>1
  <2>. QED BY <2>1, <2>4, <2>5, <2>6 DEF OnePlace
<1>. QED BY <1>1, InvHolds, PTL
-----------------------------------------------------------------------------
(* What the files of a session contain whose hooks never overlapped.       *)

InSession(l) == \E m \in 0..Len(l.rows) : Recording(l, m)
Finished(l) == \E m \in 0..Len(l.rows) : Recording(l, m) /\ Ended(l, m)

\* A ledger without rows of session id.
Fresh(l, id) == IsLedger(l) /\ \A i \in DOMAIN l.rows : l.rows[i].session # id

\* Its session ids are those of the first hooks.
OfHooks(l, n) ==
    IsLedger(l) /\ l.sid \in 1..n /\ \A i \in DOMAIN l.rows : l.rows[i].session \in 1..n

\* The only hook c of its key is at label p and holds ledger number r, with value h; the
\* registry has number n, with value l.
Working(p, c, r, n, l, h) ==
    \/ p = "lookup" /\ c.hook # "on_session_start" /\ (n # 0 => InSession(l))
    \/ p = "create" /\ (n # 0 => c.hook = "on_session_start" /\ Fresh(l, c.id))
    \/ p = "reset" /\ r = n /\ Fresh(h, c.id) /\ (c.hook # "on_session_start" => h.sid = c.id)
    \/ p = "open" /\ r = n /\ Fresh(h, c.id) /\ h.sid = c.id /\ h.next = 1 /\ h.tip = Genesis
    \/ p \in {"record", "close"} /\ r = n /\ InSession(h)
    \/ p = "pop" /\ (n # 0 => Finished(l))
    \/ p = "export" /\ n = 0 /\ Finished(h)

Running(k) == {u \in Threads : pc[u] # "idle" /\ call[u].key = k}

Resting(n, l) == n # 0 => InSession(l)

\* No hook of key k runs, or one.
KeyState(k) ==
    \/ Running(k) = {} /\ Resting(registry[k], objects[registry[k]].ledger)
    \/ \E u \in Threads :
          /\ Running(k) = {u}
          /\ Working(pc[u], call[u], ref[u], registry[k], objects[registry[k]].ledger,
                     objects[ref[u]].ledger)

Intact(lines) == PythonVerify(lines, NoPin, FALSE).status = "INTACT"

KeyTypes ==
    /\ hooks \in Nat
    /\ \A n \in 1..Len(objects) : OfHooks(objects[n].ledger, hooks)
    /\ \A t \in Threads : pc[t] # "idle" => call[t].id \in 1..hooks
    /\ \A t \in Threads : pc[t] \in Holding => objects[ref[t]].key = call[t].key

Sessions ==
    /\ KeyTypes
    /\ \A k \in SessionKeys \ mixed : KeyState(k)
    /\ \A e \in exports : objects[e.object].key \notin mixed => Intact(e.lines)

\* What a ledger's own calls leave.
LEMMA StoredOfHooks ==
    ASSUME NEW l, NEW n, OfHooks(l, n), NEW type, NEW body
    PROVE  OfHooks(Stored(l, type, body), n)
<1>. PICK e : e = BuildEvent(l.next, type, l.sid, Payload(body), l.tip, NoKey)
  OBVIOUS
<1>. PICK s : s = Stored(l, type, body)
  OBVIOUS
<1>1. /\ s = [sid |-> l.sid, next |-> l.next + 1, tip |-> e.hash, rows |-> Append(l.rows, e)]
      /\ e.session = l.sid
  BY StoredForm DEF OfHooks, BuildEvent
<1>2. IsSeq(l.rows) /\ DOMAIN l.rows = 1..Len(l.rows) /\ Len(l.rows) \in Nat
  BY SeqDomain DEF OfHooks, IsLedger
<1>3. /\ IsSeq(s.rows) /\ Len(s.rows) = Len(l.rows) + 1 /\ s.rows[Len(l.rows) + 1] = e
      /\ \A i \in 1..Len(l.rows) : s.rows[i] = l.rows[i]
  BY <1>1, <1>2, Appending
<1>4. DOMAIN s.rows = 1..(Len(l.rows) + 1)
  BY <1>3, SeqDomain
<1>5. \A i \in DOMAIN s.rows : s.rows[i].session \in 1..n
  BY <1>1, <1>2, <1>3, <1>4 DEF OfHooks
<1>. QED BY <1>1, <1>3, <1>5 DEF OfHooks, IsLedger

LEMMA StoredInSession ==
    ASSUME NEW l, InSession(l), NEW type \in {"ACTION", "SESSION_END"}, NEW body
    PROVE  /\ InSession(Stored(l, type, body))
           /\ type = "SESSION_END" => Finished(Stored(l, type, body))
<1>. PICK m \in 0..Len(l.rows) : Recording(l, m)
  BY DEF InSession
<1>. PICK s : s = Stored(l, type, body)
  OBVIOUS
<1>1. Recording(s, m) /\ (type = "SESSION_END" => Ended(s, m))
  BY StoredRecords, StoredEnds
<1>2. m \in 0..Len(s.rows)
  BY <1>1 DEF Recording, IsSession
<1>. QED BY <1>1, <1>2 DEF InSession, Finished

\* open_session after its resets.
LEMMA StartedInSession ==
    ASSUME NEW l, NEW id, Fresh(l, id), l.sid = id, l.next = 1, l.tip = Genesis,
           NEW body, ~Has(body, "pubkey")
    PROVE  InSession(Stored(l, "SESSION_START", Declared(body)))
<1>1. [l EXCEPT !.sid = id, !.next = 1, !.tip = Genesis] = l
  BY DEF Fresh, IsLedger
<1>2. Stored(l, "SESSION_START", Declared(body)) = Opened(l, id, body)
  BY <1>1 DEF Opened
<1>. PICK o : o = Opened(l, id, body)
  OBVIOUS
<1>3. Recording(o, Len(l.rows))
  BY OpenedRecords DEF Fresh
<1>4. Len(l.rows) \in 0..Len(o.rows)
  BY <1>3 DEF Recording, IsSession
<1>. QED BY <1>2, <1>3, <1>4 DEF InSession

\* A finished ledger exports a file that verifies.
LEMMA FinishedVerifies == ASSUME NEW l, Finished(l) PROVE Intact(Exported(l))
BY EndedVerifies DEF Finished, Intact

\* A step of t, which runs a hook of key k, on what else there is.
ActsOn(t, k) ==
    /\ pc[t] # "idle" /\ call[t].key = k
    /\ \A u \in Threads \ {t} : pc'[u] = pc[u] /\ call'[u] = call[u] /\ ref'[u] = ref[u]
    /\ pc'[t] # "idle" => call'[t] = call[t]
    /\ \A j \in SessionKeys \ {k} : registry'[j] = registry[j]
    /\ Len(objects') \in Nat /\ Len(objects) <= Len(objects')
    /\ \A n \in 1..Len(objects) :
          objects'[n].key = objects[n].key /\ (objects[n].key # k => objects'[n] = objects[n])
    /\ mixed' = mixed /\ hooks' = hooks

\* And on its own key.
Leaves(t, k) ==
    IF pc'[t] = "idle" THEN Resting(registry'[k], objects'[registry'[k]].ledger)
    ELSE Working(pc'[t], call'[t], ref'[t], registry'[k], objects'[registry'[k]].ledger,
                 objects'[ref'[t]].ledger)

Found(t, k) ==
    Working(pc[t], call[t], ref[t], registry[k], objects[registry[k]].ledger,
            objects[ref[t]].ledger)

LEMMA WorkingKept ==
    ASSUME NEW p, NEW c, NEW r, NEW n, NEW l, NEW h, Working(p, c, r, n, l, h),
           NEW l2, n # 0 => l2 = l, NEW h2, p \in Holding => h2 = h
    PROVE  Working(p, c, r, n, l2, h2)
BY DEF Working, Holding

LEMMA OtherKey ==
    ASSUME Types, KeyTypes, NEW t \in Threads, NEW k, ActsOn(t, k),
           NEW j \in SessionKeys \ {k}, KeyState(j)
    PROVE  KeyState(j)'
<1>. PICK n : n = registry[j]
  OBVIOUS
<1>1. registry'[j] = n /\ (n # 0 => n \in 1..Len(objects) /\ objects[n].key = j)
  BY ObjectsDomain DEF Types, LedgerTypes, ActsOn
<1>2. n # 0 => objects'[n] = objects[n]
  BY <1>1 DEF ActsOn
<1>3. Running(j)' = Running(j)
  BY DEF Running, ActsOn
<1>4. CASE Running(j) = {} /\ Resting(n, objects[n].ledger)
  BY <1>1, <1>2, <1>3, <1>4 DEF KeyState, Resting
<1>5. CASE \E u \in Threads :
              /\ Running(j) = {u}
              /\ Working(pc[u], call[u], ref[u], n, objects[n].ledger, objects[ref[u]].ledger)
  <2>1. PICK u \in Threads :
           /\ Running(j) = {u}
           /\ Working(pc[u], call[u], ref[u], n, objects[n].ledger, objects[ref[u]].ledger)
    BY <1>5
  <2>2. u # t /\ call[u].key = j
    BY <2>1 DEF Running, ActsOn
  <2>3. pc'[u] = pc[u] /\ call'[u] = call[u] /\ ref'[u] = ref[u]
    BY <2>2 DEF ActsOn
  <2>4. pc[u] \in Holding => objects'[ref[u]] = objects[ref[u]]
    <3>1. pc[u] \in Holding => ref[u] \in 1..Len(objects) /\ objects[ref[u]].key = j
      BY <2>2, LocalsKept DEF Types, HookTypes, KeyTypes
    <3>. QED BY <3>1 DEF ActsOn
  <2>5. Working(pc[u], call[u], ref[u], n, objects'[n].ledger, objects'[ref[u]].ledger)
    BY <1>2, <2>1, <2>4, WorkingKept
  <2>6. Running(j)' = {u}
    BY <1>3, <2>1
  <2>. QED BY <1>1, <2>3, <2>5, <2>6 DEF KeyState
<1>. QED BY <1>4, <1>5 DEF KeyState

LEMMA OwnKey ==
    ASSUME NEW t \in Threads, NEW k, ActsOn(t, k), KeyState(k), Found(t, k) => Leaves(t, k)
    PROVE  KeyState(k)'
<1>1. t \in Running(k)
  BY DEF Running, ActsOn
<1>2. Running(k) = {t} /\ Found(t, k)
  BY <1>1 DEF KeyState, Found
<1>3. \A u \in Threads \ {t} : u \notin Running(k)'
  BY <1>2 DEF Running, ActsOn
<1>4. CASE pc'[t] = "idle"
  <2>1. Running(k)' = {}
    BY <1>3, <1>4 DEF Running
  <2>. QED BY <1>2, <1>4, <2>1 DEF KeyState, Leaves
<1>5. CASE pc'[t] # "idle"
  <2>1. Running(k)' = {t}
    BY <1>3, <1>5 DEF Running, ActsOn
  <2>. QED BY <1>2, <1>5, <2>1 DEF KeyState, Leaves
<1>. QED BY <1>4, <1>5

\* So it is enough to look at what a step does for its own key.
LEMMA HookSessions ==
    ASSUME Types, Sessions, NEW t \in Threads, NEW k \in SessionKeys, ActsOn(t, k),
           \A n \in 1..Len(objects') : OfHooks(objects'[n].ledger, hooks),
           pc'[t] \in Holding => objects'[ref'[t]].key = k,
           k \notin mixed /\ Found(t, k) => Leaves(t, k),
           \A e \in exports' : e \in exports \/ (e.object \in 1..Len(objects) /\
              (objects[e.object].key \notin mixed => Intact(e.lines)))
    PROVE  Sessions'
<1>1. \A j \in SessionKeys \ mixed' : KeyState(j)'
  BY OtherKey, OwnKey DEF Sessions, ActsOn
<1>2. KeyTypes'
  <2>1. \A u \in Threads : pc'[u] # "idle" => call'[u].id \in 1..hooks'
    BY DEF Sessions, KeyTypes, ActsOn
  <2>2. \A u \in Threads \ {t} : pc'[u] \in Holding => objects'[ref'[u]].key = call'[u].key
    <3>. SUFFICES ASSUME NEW u \in Threads \ {t}, pc[u] \in Holding
                  PROVE  objects'[ref[u]].key = call[u].key
      BY DEF ActsOn
    <3>1. ref[u] \in 1..Len(objects) /\ objects[ref[u]].key = call[u].key
      BY LocalsKept DEF Types, HookTypes, Sessions, KeyTypes
    <3>. QED BY <3>1 DEF ActsOn
  <2>3. pc'[t] \in Holding => call'[t].key = k
    BY DEF ActsOn, Holding
  <2>4. hooks' = hooks /\ hooks \in Nat
    BY DEF ActsOn, Sessions, KeyTypes
  <2>. QED BY <2>1, <2>2, <2>3, <2>4 DEF KeyTypes
<1>3. ASSUME NEW e \in exports', objects'[e.object].key \notin mixed'
      PROVE  Intact(e.lines)
  <2>1. e.object \in 1..Len(objects)
    BY DEF Types, LedgerTypes
  <2>2. objects[e.object].key \notin mixed
    BY <1>3, <2>1 DEF ActsOn
  <2>. QED BY <2>2 DEF Sessions
<1>. QED BY <1>1, <1>2, <1>3 DEF Sessions, Intact

-----------------------------------------------------------------------------
(* Each step.                                                              *)

\* A hook that is called.
LEMMA BeginSessions ==
    ASSUME Types, Sessions, NEW t \in Threads, NEW k \in SessionKeys, NEW h \in Hooks,
           Begin(t, k, h)
    PROVE  Sessions'
<1>. PICK c : c = [id |-> hooks + 1, key |-> k, hook |-> h]
  OBVIOUS
<1>. PICK label : label = IF h = "on_session_start" THEN "create" ELSE "lookup"
  OBVIOUS
<1>1. /\ pc[t] = "idle" /\ pc' = [pc EXCEPT ![t] = label] /\ label \notin Holding \cup {"idle"}
      /\ call' = [call EXCEPT ![t] = c] /\ c.key = k /\ c.id = hooks + 1 /\ c.hook = h
      /\ hooks' = hooks + 1 /\ UNCHANGED <<registry, objects, exports, ref>>
      /\ mixed' = IF \E u \in Threads : pc[u] # "idle" /\ call[u].key = k
                  THEN mixed \cup {k} ELSE mixed
  BY DEF Begin, Goto, Holding
<1>2. /\ pc'[t] = label /\ call'[t] = c
      /\ \A u \in Threads \ {t} : pc'[u] = pc[u] /\ call'[u] = call[u]
  BY <1>1 DEF Types, HookTypes
<1>3. hooks \in Nat /\ \A n \in 1..Len(objects) : OfHooks(objects[n].ledger, hooks)
  BY DEF Sessions, KeyTypes
<1>4. KeyTypes'
  <2>1. ASSUME NEW n \in 1..Len(objects) PROVE OfHooks(objects[n].ledger, hooks + 1)
    BY <1>3 DEF OfHooks
  <2>2. \A u \in Threads : pc'[u] # "idle" => call'[u].id \in 1..(hooks + 1)
    BY <1>1, <1>2, <1>3 DEF Sessions, KeyTypes
  <2>3. \A u \in Threads : pc'[u] \in Holding => objects[ref[u]].key = call'[u].key
    BY <1>1, <1>2 DEF Sessions, KeyTypes
  <2>. QED BY <1>1, <1>3, <2>1, <2>2, <2>3 DEF KeyTypes
<1>5. ASSUME NEW j \in SessionKeys \ mixed', j # k PROVE KeyState(j)'
  <2>1. Running(j)' = Running(j) /\ t \notin Running(j)
    BY <1>1, <1>2, <1>5 DEF Running
  <2>2. KeyState(j)
    BY <1>1, <1>5 DEF Sessions
  <2>. QED BY <1>1, <1>2, <2>1, <2>2 DEF KeyState
<1>6. ASSUME k \notin mixed' PROVE KeyState(k)'
  <2>1. Running(k) = {} /\ k \notin mixed
    BY <1>1, <1>6 DEF Running
  <2>2. Running(k)' = {t}
    BY <1>1, <1>2, <2>1 DEF Running
  <2>. PICK n : n = registry[k]
    OBVIOUS
  <2>3. Resting(n, objects[n].ledger)
    BY <2>1 DEF Sessions, KeyState
  <2>4. n # 0 => Fresh(objects[n].ledger, c.id)
    <3>1. n # 0 => n \in 1..Len(objects)
      BY LocalsKept DEF Types, LedgerTypes
    <3>2. n # 0 => OfHooks(objects[n].ledger, hooks)
      BY <1>3, <3>1
    <3>. QED BY <1>1, <1>3, <3>2 DEF OfHooks, Fresh
  <2>5. Working(label, c, ref[t], n, objects[n].ledger, objects[ref[t]].ledger)
    <3>1. CASE h = "on_session_start"
      BY <1>1, <2>4, <3>1 DEF Working
    <3>2. CASE h # "on_session_start"
      BY <1>1, <2>3, <3>2 DEF Working, Resting
    <3>. QED BY <3>1, <3>2
  <2>. QED BY <1>1, <1>2, <2>2, <2>5 DEF KeyState
<1>7. \A e \in exports' : objects'[e.object].key \notin mixed' => Intact(e.lines)
  BY <1>1 DEF Sessions
<1>. QED BY <1>4, <1>5, <1>6, <1>7 DEF Sessions, Intact

LEMMA LookupSessions ==
    ASSUME Types, Sessions, NEW t \in Threads, Lookup(t) PROVE Sessions'
<1>. PICK k : k = call[t].key
  OBVIOUS
<1>. PICK n : n = registry[k]
  OBVIOUS
<1>. PICK label : label = IF call[t].hook = "on_session_end" THEN IF n = 0 THEN "pop" ELSE "close"
                          ELSE IF n = 0 THEN "create" ELSE "record"
  OBVIOUS
<1>1. /\ pc[t] = "lookup" /\ k \in SessionKeys
      /\ pc' = [pc EXCEPT ![t] = label] /\ label # "idle"
      /\ ref' = [ref EXCEPT ![t] = n]
      /\ UNCHANGED <<registry, objects, exports, call, hooks, mixed>>
  BY DEF Lookup, Goto, Hold, gateway, Types, HookTypes
<1>2. /\ pc'[t] = label /\ ref'[t] = n
      /\ \A u \in Threads \ {t} : pc'[u] = pc[u] /\ ref'[u] = ref[u]
  BY <1>1 DEF Types, HookTypes
<1>3. ActsOn(t, k)
  BY <1>1, <1>2, LocalsKept DEF ActsOn
<1>4. n # 0 => objects[n].key = k
  BY <1>1 DEF Types, LedgerTypes
<1>5. pc'[t] \in Holding => objects'[ref'[t]].key = k
  BY <1>1, <1>2, <1>4 DEF Holding
<1>6. Found(t, k) => Leaves(t, k)
  <2>. SUFFICES ASSUME Found(t, k)
                PROVE  Working(label, call[t], n, n, objects[n].ledger, objects[n].ledger)
    BY <1>1, <1>2 DEF Leaves
  <2>1. call[t].hook # "on_session_start" /\ (n # 0 => InSession(objects[n].ledger))
    BY <1>1 DEF Found, Working
  <2>. QED BY <2>1 DEF Working
<1>7. \A e \in exports' : e \in exports
  BY <1>1
<1>8. \A i \in 1..Len(objects') : OfHooks(objects'[i].ledger, hooks)
  BY <1>1 DEF Sessions, KeyTypes
<1>. QED BY <1>1, <1>3, <1>5, <1>6, <1>7, <1>8, HookSessions

LEMMA NewObjectForm ==
    ASSUME NEW c
    PROVE  /\ NewObject(c).key = c.key /\ NewObject(c).ledger = NewLedger(c.id)
           /\ IsLedger(NewLedger(c.id)) /\ NewLedger(c.id).sid = c.id
           /\ DOMAIN NewLedger(c.id).rows = {}
BY DEF NewObject, NewLedger, IsLedger, IsSeq

LEMMA CreateSessions ==
    ASSUME Types, Sessions, NEW t \in Threads, GetOrCreate(t) PROVE Sessions'
<1>. PICK k : k = call[t].key
  OBVIOUS
<1>. PICK n : n = registry[k]
  OBVIOUS
<1>. PICK N \in Nat : N = Len(objects)
  BY LocalsKept
<1>1. /\ pc[t] = "create" /\ k \in SessionKeys
      /\ pc' = [pc EXCEPT ![t] = "reset"] /\ UNCHANGED <<exports, call, hooks, mixed>>
  BY DEF GetOrCreate, Goto, gateway, Types, HookTypes
<1>2. /\ pc'[t] = "reset" /\ \A u \in Threads \ {t} : pc'[u] = pc[u]
  BY <1>1 DEF Types, HookTypes
<1>3. \A e \in exports' : e \in exports
  BY <1>1
<1>4. call[t].id \in 1..hooks /\ \A i \in 1..N : OfHooks(objects[i].ledger, hooks)
  BY <1>1 DEF Sessions, KeyTypes
<1>5. CASE n # 0
  <2>1. /\ UNCHANGED <<objects, registry>> /\ ref' = [ref EXCEPT ![t] = n]
    BY <1>5 DEF GetOrCreate, Hold
  <2>2. ref'[t] = n /\ \A u \in Threads \ {t} : ref'[u] = ref[u]
    BY <2>1 DEF Types, HookTypes
  <2>3. ActsOn(t, k)
    BY <1>1, <1>2, <2>1, <2>2 DEF ActsOn
  <2>4. objects[n].key = k
    BY <1>1, <1>5 DEF Types, LedgerTypes
  <2>5. Found(t, k) => Leaves(t, k)
    <3>. SUFFICES ASSUME Found(t, k)
                  PROVE  Working("reset", call[t], n, n, objects[n].ledger, objects[n].ledger)
      BY <1>1, <1>2, <2>1, <2>2 DEF Leaves
    <3>1. call[t].hook = "on_session_start" /\ Fresh(objects[n].ledger, call[t].id)
      BY <1>1, <1>5 DEF Found, Working
    <3>. QED BY <3>1 DEF Working
  <2>. QED BY <1>1, <1>2, <1>3, <1>4, <2>1, <2>2, <2>3, <2>4, <2>5, HookSessions
<1>6. CASE n = 0
  <2>. PICK o : o = NewObject(call[t])
    OBVIOUS
  <2>1. /\ objects' = Append(objects, o) /\ registry' = [registry EXCEPT ![k] = N + 1]
        /\ ref' = [ref EXCEPT ![t] = N + 1]
    BY <1>6 DEF GetOrCreate, Hold
  <2>2. /\ ref'[t] = N + 1 /\ \A u \in Threads \ {t} : ref'[u] = ref[u]
        /\ registry'[k] = N + 1 /\ \A j \in SessionKeys \ {k} : registry'[j] = registry[j]
    BY <1>1, <2>1 DEF Types, HookTypes, LedgerTypes
  <2>3. /\ o.key = k /\ o.ledger = NewLedger(call[t].id) /\ IsLedger(o.ledger)
        /\ o.ledger.sid = call[t].id /\ DOMAIN o.ledger.rows = {}
    BY NewObjectForm
  <2>4. /\ Len(objects') = N + 1 /\ \A i \in 1..N : objects'[i] = objects[i]
        /\ objects'[N + 1] = o
    <3>1. IsObject(o)
      BY <1>1, <2>3 DEF IsObject, NewObject
    <3>. QED BY <2>1, <3>1, ObjectAdded DEF Types, LedgerTypes
  <2>5. ActsOn(t, k)
    BY <1>1, <1>2, <2>2, <2>4 DEF ActsOn
  <2>6. \A i \in 1..Len(objects') : OfHooks(objects'[i].ledger, hooks)
    <3>1. OfHooks(o.ledger, hooks)
      BY <1>4, <2>3 DEF OfHooks
    <3>. QED BY <1>4, <2>4, <3>1
  <2>7. Leaves(t, k)
    <3>1. Working("reset", call[t], N + 1, N + 1, o.ledger, o.ledger)
      BY <2>3 DEF Working, Fresh
    <3>. QED BY <1>1, <1>2, <2>2, <2>4, <3>1 DEF Leaves
  <2>. QED BY <1>1, <1>2, <1>3, <2>2, <2>3, <2>4, <2>5, <2>6, <2>7, HookSessions
<1>. QED BY <1>5, <1>6

\* The held ledger becomes l.
Puts(t, l) == objects' = [objects EXCEPT ![ref[t]] = [objects[ref[t]] EXCEPT !.ledger = l]]

LEMMA PutForm ==
    ASSUME Types, Sessions, NEW t \in Threads, pc[t] \in Holding, NEW l, Puts(t, l)
    PROVE  /\ Len(objects') = Len(objects) /\ Len(objects) \in Nat
           /\ ref[t] \in 1..Len(objects)
           /\ objects'[ref[t]].ledger = l /\ objects'[ref[t]].key = call[t].key
           /\ objects[ref[t]].key = call[t].key
           /\ \A i \in 1..Len(objects) :
                 objects'[i].key = objects[i].key /\ (i # ref[t] => objects'[i] = objects[i])
<1>. PICK r : r = ref[t]
  OBVIOUS
<1>. PICK o : o = [objects[r] EXCEPT !.ledger = l]
  OBVIOUS
<1>. PICK w : w = objects'
  OBVIOUS
<1>1. /\ AreObjects(objects) /\ DOMAIN objects = 1..Len(objects) /\ Len(objects) \in Nat
      /\ r \in 1..Len(objects) /\ objects[r].key = call[t].key
  BY ObjectsDomain DEF Types, LedgerTypes, HookTypes, Sessions, KeyTypes
<1>2. IsObject(objects[r])
  BY <1>1 DEF AreObjects
<1>3. IsObject(o) /\ o.key = objects[r].key /\ o.ledger = l
  BY <1>2 DEF IsObject
<1>4. w = [objects EXCEPT ![r] = o]
  BY DEF Puts
<1>5. \A i \in DOMAIN objects : w[i] = IF i = r THEN o ELSE objects[i]
  BY ONLY <1>4
<1>6. \A i \in DOMAIN objects : IsObject(w[i]) /\ w[i].key = objects[i].key
  BY ONLY <1>1, <1>3, <1>5 DEF AreObjects
<1>7. w = [i \in DOMAIN objects |-> w[i]]
  BY ONLY <1>1, <1>4 DEF AreObjects
<1>8. Len(w) = Len(objects)
  BY ONLY <1>1, <1>6, <1>7, SameKeys
<1>. QED BY <1>1, <1>3, <1>5, <1>6, <1>8

\* A step of t that puts ledger l and goes to a label.
LEMMA PutSessions ==
    ASSUME Types, Sessions, NEW t \in Threads, pc[t] \in Holding, NEW l, Puts(t, l),
           NEW label, pc' = [pc EXCEPT ![t] = label],
           IF label = "idle" THEN TRUE ELSE UNCHANGED <<call, ref>>,
           \A u \in Threads \ {t} : call'[u] = call[u] /\ ref'[u] = ref[u],
           UNCHANGED <<registry, exports, hooks, mixed>>,
           OfHooks(l, hooks),
           Found(t, call[t].key) =>
              /\ ref[t] = registry[call[t].key]
              /\ IF label = "idle" THEN InSession(l)
                 ELSE Working(label, call[t], ref[t], ref[t], l, l)
    PROVE  Sessions'
<1>. PICK k : k = call[t].key
  OBVIOUS
<1>1. k \in SessionKeys /\ pc[t] # "idle"
  BY DEF Types, HookTypes, Holding
<1>2. pc'[t] = label /\ \A u \in Threads \ {t} : pc'[u] = pc[u]
  BY DEF Types, HookTypes
<1>3. /\ Len(objects') = Len(objects) /\ Len(objects) \in Nat
      /\ ref[t] \in 1..Len(objects)
      /\ objects'[ref[t]].ledger = l /\ objects'[ref[t]].key = k
      /\ objects[ref[t]].key = k
      /\ \A i \in 1..Len(objects) :
            objects'[i].key = objects[i].key /\ (i # ref[t] => objects'[i] = objects[i])
  BY PutForm
<1>4. ActsOn(t, k)
  BY <1>1, <1>2, <1>3 DEF ActsOn
<1>5. \A i \in 1..Len(objects') : OfHooks(objects'[i].ledger, hooks)
  BY <1>3 DEF Sessions, KeyTypes
<1>6. pc'[t] \in Holding => objects'[ref'[t]].key = k
  BY <1>2, <1>3 DEF Holding
<1>7. Found(t, k) => Leaves(t, k)
  <2>. SUFFICES ASSUME Found(t, k) PROVE Leaves(t, k)
    OBVIOUS
  <2>1. CASE label = "idle"
    BY <1>2, <1>3, <2>1 DEF Leaves, Resting
  <2>2. CASE label # "idle"
    BY <1>2, <1>3, <2>2 DEF Leaves
  <2>. QED BY <2>1, <2>2
<1>8. \A e \in exports' : e \in exports
  OBVIOUS
<1>. QED BY <1>1, <1>4, <1>5, <1>6, <1>7, <1>8, HookSessions

LEMMA ResetSessions ==
    ASSUME Types, Sessions, NEW t \in Threads, Reset(t) PROVE Sessions'
<1>. PICK h : h = objects[ref[t]].ledger
  OBVIOUS
<1>. PICK c : c = call[t]
  OBVIOUS
<1>. PICK s : s = IF c.hook = "on_session_start" THEN c.id ELSE h.sid
  OBVIOUS
<1>. PICK l : l = [h EXCEPT !.sid = s, !.next = 1, !.tip = Genesis]
  OBVIOUS
<1>1. /\ pc[t] = "reset" /\ pc[t] \in Holding /\ ref[t] \in 1..Len(objects)
      /\ pc' = [pc EXCEPT ![t] = "open"]
      /\ UNCHANGED <<registry, exports, hooks, mixed, call, ref>>
      /\ c.id \in 1..hooks /\ OfHooks(h, hooks)
  BY LocalsKept DEF Reset, Goto, gateway, Holding, Types, HookTypes, Sessions, KeyTypes
<1>2. Puts(t, l)
  <2>1. objects' = [objects EXCEPT ![ref[t]] = [objects[ref[t]] EXCEPT !.ledger =
           [h EXCEPT !.sid = s, !.next = 1, !.tip = Genesis]]]
    BY DEF Reset
  <2>. QED BY <2>1 DEF Puts
<1>3. l = [sid |-> s, next |-> 1, tip |-> Genesis, rows |-> h.rows] /\ IsLedger(h)
  BY <1>1 DEF OfHooks, IsLedger
<1>4. /\ IsLedger(l) /\ l.sid = s /\ l.next = 1 /\ l.tip = Genesis /\ l.rows = h.rows
  BY <1>3 DEF IsLedger
<1>5. OfHooks(l, hooks)
  BY <1>1, <1>4 DEF OfHooks
<1>6. ASSUME Found(t, c.key)
      PROVE  ref[t] = registry[c.key] /\ Working("open", c, ref[t], ref[t], l, l)
  <2>1. \E n, k : n = registry[c.key] /\ Working("reset", c, ref[t], n, k, h)
    BY <1>1, <1>6 DEF Found
  <2>2. /\ ref[t] = registry[c.key] /\ Fresh(h, c.id)
        /\ c.hook # "on_session_start" => h.sid = c.id
    BY ONLY <2>1 DEF Working
  <2>3. s = c.id
    BY <2>2
  <2>4. Fresh(l, c.id)
    BY ONLY <1>4, <2>2 DEF Fresh
  <2>5. l.sid = c.id /\ l.next = 1 /\ l.tip = Genesis
    BY ONLY <1>4, <2>3
  <2>. QED BY ONLY <2>2, <2>4, <2>5 DEF Working
<1>. QED BY <1>1, <1>2, <1>5, <1>6, PutSessions

\* The held ledger stores an event, and t goes on or is done.
Stores(t, type, body, label) ==
    /\ Puts(t, Stored(objects[ref[t]].ledger, type, body))
    /\ pc' = [pc EXCEPT ![t] = label]
    /\ IF label = "idle" THEN TRUE ELSE UNCHANGED <<call, ref>>
    /\ \A u \in Threads \ {t} : call'[u] = call[u] /\ ref'[u] = ref[u]
    /\ UNCHANGED <<registry, exports, hooks, mixed>>

LEMMA StoresForm ==
    ASSUME Types, NEW t \in Threads, NEW type, NEW body, NEW label, Write(t, type, body),
           UNCHANGED <<gateway, registry, exports>>,
           \/ label = "idle" /\ Return(t)
           \/ label # "idle" /\ Goto(t, label) /\ UNCHANGED <<call, ref>>
    PROVE  Stores(t, type, body, label)
<1>1. Puts(t, Stored(objects[ref[t]].ledger, type, body))
  <2>. PICK o : o = objects[ref[t]]
    OBVIOUS
  <2>1. [o EXCEPT !.ledger = Stored(@, type, body)]
          = [o EXCEPT !.ledger = Stored(o.ledger, type, body)]
    OBVIOUS
  <2>. QED BY <2>1 DEF Write, Puts
<1>2. \A u \in Threads \ {t} : call'[u] = call[u] /\ ref'[u] = ref[u]
  BY DEF Types, HookTypes, Return, Hold
<1>. QED BY <1>1, <1>2 DEF Stores, Return, Goto, gateway

LEMMA StoresSessions ==
    ASSUME Types, Sessions, NEW t \in Threads, pc[t] \in Holding, NEW type, NEW body, NEW label,
           Stores(t, type, body, label),
           NEW l, l = Stored(objects[ref[t]].ledger, type, body),
           Found(t, call[t].key) =>
              /\ ref[t] = registry[call[t].key]
              /\ IF label = "idle" THEN InSession(l)
                 ELSE Working(label, call[t], ref[t], ref[t], l, l)
    PROVE  Sessions'
<1>1. OfHooks(objects[ref[t]].ledger, hooks)
  BY LocalsKept DEF Types, HookTypes, Sessions, KeyTypes
<1>2. OfHooks(l, hooks)
  BY <1>1, StoredOfHooks
<1>. QED BY <1>2, PutSessions DEF Stores

LEMMA WriteSessions ==
    ASSUME Types, Sessions, NEW t \in Threads, WriteStart(t) \/ WriteEvent(t) \/ WriteEnd(t)
    PROVE  Sessions'
<1>. PICK c : c = call[t]
  OBVIOUS
<1>. PICK h : h = objects[ref[t]].ledger
  OBVIOUS
<1>0. pc[t] \in Holding
  BY DEF WriteStart, WriteEvent, WriteEnd, Holding
<1>1. CASE WriteStart(t)
  <2>1. ASSUME Found(t, c.key), NEW body, ~Has(body, "pubkey")
        PROVE  /\ ref[t] = registry[c.key]
               /\ InSession(Stored(h, "SESSION_START", Declared(body)))
    <3>1. /\ ref[t] = registry[c.key] /\ Fresh(h, c.id) /\ h.sid = c.id /\ h.next = 1
          /\ h.tip = Genesis
      BY <1>1, <2>1 DEF WriteStart, Found, Working
    <3>. QED BY <2>1, <3>1, StartedInSession
  <2>2. CASE c.hook = "on_session_start"
    <3>. PICK body : body = Body(t)
      OBVIOUS
    <3>1. ~Has(body, "pubkey")
      BY DEF Body, Has
    <3>2. Stores(t, "SESSION_START", Declared(body), "idle")
      BY <1>1, <2>2, StoresForm DEF WriteStart
    <3>. QED BY <1>0, <2>1, <3>1, <3>2, StoresSessions
  <2>3. CASE c.hook # "on_session_start"
    <3>. PICK body : body = [implicit |-> TRUE]
      OBVIOUS
    <3>1. ~Has(body, "pubkey")
      BY DEF Has
    <3>2. Stores(t, "SESSION_START", Declared(body), "record")
      BY <1>1, <2>3, StoresForm DEF WriteStart
    <3>. PICK l : l = Stored(h, "SESSION_START", Declared(body))
      OBVIOUS
    <3>3. Found(t, c.key) => ref[t] = registry[c.key] /\ Working("record", c, ref[t], ref[t], l, l)
      BY <2>1, <3>1 DEF Working
    <3>. QED BY <1>0, <3>2, <3>3, StoresSessions
  <2>. QED BY <2>2, <2>3
<1>2. CASE WriteEvent(t)
  <2>1. Stores(t, "ACTION", Body(t), "idle")
    BY <1>2, StoresForm DEF WriteEvent
  <2>. PICK l : l = Stored(h, "ACTION", Body(t))
    OBVIOUS
  <2>2. Found(t, c.key) => ref[t] = registry[c.key] /\ InSession(l)
    <3>1. Found(t, c.key) => ref[t] = registry[c.key] /\ InSession(h)
      BY <1>2 DEF WriteEvent, Found, Working
    <3>. QED BY <3>1, StoredInSession
  <2>. QED BY <1>0, <2>1, <2>2, StoresSessions
<1>3. CASE WriteEnd(t)
  <2>1. Stores(t, "SESSION_END", Body(t), "pop")
    BY <1>3, StoresForm DEF WriteEnd
  <2>. PICK l : l = Stored(h, "SESSION_END", Body(t))
    OBVIOUS
  <2>2. Found(t, c.key) => ref[t] = registry[c.key] /\ Working("pop", c, ref[t], ref[t], l, l)
    <3>1. Found(t, c.key) => ref[t] = registry[c.key] /\ InSession(h)
      BY <1>3 DEF WriteEnd, Found, Working
    <3>2. Found(t, c.key) => Finished(l)
      BY <3>1, StoredInSession
    <3>. QED BY <3>1, <3>2 DEF Working
  <2>. QED BY <1>0, <2>1, <2>2, StoresSessions
<1>. QED BY <1>1, <1>2, <1>3

LEMMA PopSessions ==
    ASSUME Types, Sessions, NEW t \in Threads, Pop(t) PROVE Sessions'
<1>. PICK k : k = call[t].key
  OBVIOUS
<1>. PICK n : n = registry[k]
  OBVIOUS
<1>1. /\ UNCHANGED <<objects, exports, hooks, mixed>> /\ pc[t] = "pop" /\ k \in SessionKeys
      /\ registry' = [registry EXCEPT ![k] = 0]
      /\ \A u \in Threads \ {t} : pc'[u] = pc[u] /\ ref'[u] = ref[u]
      /\ IF n = 0 THEN pc'[t] = "idle" ELSE pc'[t] = "export" /\ ref'[t] = n
  BY PopTypes DEF Pop, gateway
<1>2. /\ registry'[k] = 0 /\ \A j \in SessionKeys \ {k} : registry'[j] = registry[j]
      /\ n # 0 => objects[n].key = k
  BY <1>1 DEF Types, LedgerTypes
<1>3. /\ \A u \in Threads \ {t} : call'[u] = call[u]
      /\ n # 0 => call'[t] = call[t]
  BY DEF Pop, Return, Types, HookTypes
<1>4. ActsOn(t, k)
  BY <1>1, <1>2, <1>3, LocalsKept DEF ActsOn
<1>5. pc'[t] \in Holding => objects'[ref'[t]].key = k
  BY <1>1, <1>2 DEF Holding
<1>6. Found(t, k) => Leaves(t, k)
  <2>. SUFFICES ASSUME Found(t, k) PROVE Leaves(t, k)
    OBVIOUS
  <2>1. n # 0 => Finished(objects[n].ledger)
    BY <1>1 DEF Found, Working
  <2>2. CASE n = 0
    BY <1>1, <1>2, <2>2 DEF Leaves, Resting
  <2>3. CASE n # 0
    <3>1. Working("export", call[t], n, 0, objects'[0].ledger, objects[n].ledger)
      BY <2>1, <2>3 DEF Working
    <3>. QED BY <1>1, <1>2, <1>3, <2>3, <3>1 DEF Leaves
  <2>. QED BY <2>2, <2>3
<1>7. \A i \in 1..Len(objects') : OfHooks(objects'[i].ledger, hooks)
  BY <1>1 DEF Sessions, KeyTypes
<1>8. \A e \in exports' : e \in exports
  BY <1>1
<1>. QED BY <1>1, <1>4, <1>5, <1>6, <1>7, <1>8, HookSessions

LEMMA ExportSessions ==
    ASSUME Types, Sessions, NEW t \in Threads, Export(t) PROVE Sessions'
<1>. PICK k : k = call[t].key
  OBVIOUS
<1>. PICK h : h = objects[ref[t]].ledger
  OBVIOUS
<1>. PICK e : e = [object |-> ref[t], by |-> call[t].id, lines |-> Exported(h)]
  OBVIOUS
<1>1. /\ UNCHANGED <<registry, objects, hooks, mixed>> /\ pc[t] = "export" /\ k \in SessionKeys
      /\ pc' = [pc EXCEPT ![t] = "idle"] /\ exports' = exports \cup {e}
      /\ e.object = ref[t] /\ e.lines = Exported(h)
      /\ ref[t] \in 1..Len(objects) /\ objects[ref[t]].key = k
  BY LocalsKept
     DEF Export, Return, Goto, gateway, Types, HookTypes, Holding, Sessions, KeyTypes
<1>2. /\ pc'[t] = "idle"
      /\ \A u \in Threads \ {t} : pc'[u] = pc[u] /\ call'[u] = call[u] /\ ref'[u] = ref[u]
  BY <1>1 DEF Export, Return, Hold, Types, HookTypes
<1>3. ActsOn(t, k)
  BY <1>1, <1>2, LocalsKept DEF ActsOn
<1>4. Found(t, k) => registry[k] = 0 /\ Finished(h)
  BY <1>1 DEF Found, Working
<1>5. Found(t, k) => Leaves(t, k)
  BY <1>1, <1>2, <1>4 DEF Leaves, Resting
<1>6. k \notin mixed => Intact(e.lines)
  <2>1. t \in Running(k)
    BY <1>1 DEF Running
  <2>2. k \notin mixed => Found(t, k)
    BY <1>1, <2>1 DEF Sessions, KeyState, Found
  <2>. QED BY <1>1, <1>4, <2>2, FinishedVerifies
<1>7. \A i \in 1..Len(objects') : OfHooks(objects'[i].ledger, hooks)
  BY <1>1 DEF Sessions, KeyTypes
<1>8. pc'[t] \notin Holding
  BY <1>2 DEF Holding
<1>9. ASSUME NEW f \in exports'
      PROVE  f \in exports \/ (f.object \in 1..Len(objects) /\
                (objects[f.object].key \notin mixed => Intact(f.lines)))
  BY <1>1, <1>6
<1>. QED BY <1>1, <1>3, <1>5, <1>7, <1>8, <1>9, HookSessions

LEMMA SessionsStep == Types /\ Sessions /\ [Next]_vars => Sessions'
<1>. SUFFICES ASSUME Types, Sessions, [Next]_vars PROVE Sessions'
  OBVIOUS
<1>1. CASE UNCHANGED vars
  BY <1>1 DEF vars, gateway, locals, Sessions, KeyTypes, KeyState, Running, Resting, Intact
<1>2. ASSUME NEW t \in Threads, NEW k \in SessionKeys, NEW h \in Hooks, Begin(t, k, h)
      PROVE  Sessions'
  BY <1>2, BeginSessions
<1>3. ASSUME NEW t \in Threads, Hook(t)
      PROVE  Sessions'
  BY <1>3, LookupSessions, CreateSessions, ResetSessions, WriteSessions, PopSessions,
     ExportSessions DEF Hook
<1>. QED BY <1>1, <1>2, <1>3 DEF Next

\* Whatever the hooks of other sessions do meanwhile, on however many threads, and also when
\* a late hook has left an implicit session behind: a ledger whose own session's hooks never
\* overlapped exports a file that verifies.
THEOREM ExportedFilesVerify == Spec => []ExportsVerify
<1>1. Init => Sessions
  <2>. SUFFICES ASSUME Init PROVE Sessions
    OBVIOUS
  <2>1. hooks = 0 /\ exports = {} /\ Len(objects) = 0
    BY DEF Init
  <2>2. \A t \in Threads : pc[t] = "idle"
    BY DEF Init
  <2>3. \A k \in SessionKeys : registry[k] = 0
    BY DEF Init
  <2>4. KeyTypes
    BY <2>1, <2>2 DEF KeyTypes, Holding
  <2>5. \A k \in SessionKeys : KeyState(k)
    BY <2>2, <2>3 DEF KeyState, Running, Resting
  <2>. QED BY <2>1, <2>4, <2>5 DEF Sessions
<1>2. Sessions => ExportsVerify
  BY DEF Sessions, ExportsVerify, Intact
<1>. QED BY <1>1, <1>2, InvHolds, SessionsStep, PTL DEF Spec, Inv
=============================================================================
