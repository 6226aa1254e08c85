--------------------------- MODULE SealingProofs ----------------------------
(***************************************************************************)
(* Sealing for any number of clients, files, commands and crashes: no file *)
(* is sealed twice, what is sealed stays under the published key, a file   *)
(* that was cut short is found, and success means an authoritative file.   *)
(* And what the verifiers and the reports say of a file after any faults:  *)
(* one that passes has lost at most its end, and the verifiers agree.      *)
(***************************************************************************)
EXTENDS Sealing, LogFile, SessionProofs, SequenceTheorems

-----------------------------------------------------------------------------
(* The inductive invariant: every sequence of lines in a file, a request   *)
(* or a response is sound, and so is the server's key.                     *)

IsSeal(line) == IsEvent(line) /\ line.type = "CHAIN_SEAL"

Lines(s) ==
    /\ IsSeq(s)
    /\ \A i \in DOMAIN s : IsEvent(s[i]) => s[i].seq \in Nat
    /\ \A i, j \in DOMAIN s : IsSeal(s[i]) /\ IsSeal(s[j]) => i = j

\* The key the server publishes at /pubkey, if it has one for good.
Published == IF EnvKey # NoKey THEN EnvKey ELSE keyFile
HasKey == EnvKey # NoKey \/ keyFile \in ServerKeys

SealedBy(s, key) == \A i \in DOMAIN s : IsSeal(s[i]) => s[i].payload.body.server_pubkey = key

Sound(s) ==
    /\ Lines(s)
    /\ HasKey => SealedBy(s, Published)
    /\ ~HasKey => \A i \in DOMAIN s : ~IsSeal(s[i])

\* Everything the files, the requests and the responses hold.
Held ==
    {files[p] : p \in Paths} \cup {body[c] : c \in Clients} \cup {reply[c].body : c \in Clients}

Typed ==
    /\ files = [p \in Paths |-> files[p]]
    /\ body = [c \in Clients |-> body[c]]
    /\ reply = [c \in Clients |-> reply[c]]
    /\ out \in [Clients -> Paths]

Server ==
    /\ server = "generate" => EnvKey = NoKey /\ keyFile = NoFile
    /\ server = "write" => EnvKey = NoKey /\ keyFile = EmptyFile /\ serverKey \in ServerKeys
    /\ server = "up" => HasKey /\ serverKey = Published

Inv == Typed /\ Server /\ \A s \in Held : Sound(s)

-----------------------------------------------------------------------------
(* Sequences of lines.                                                     *)

LEMMA EmptyLines == Lines(<<>>) /\ DOMAIN <<>> = {}
BY DEF Lines, IsSeq

LEMMA EmptySound == Sound(<<>>)
BY EmptyLines DEF Sound, SealedBy

LEMMA TornIsNoEvent == ~IsEvent(Torn)
BY DEF IsEvent

LEMMA PrefixEntries ==
    ASSUME NEW s, IsSeq(s), NEW n \in 0..Len(s)
    PROVE  /\ IsSeq(SubSeq(s, 1, n)) /\ DOMAIN SubSeq(s, 1, n) = 1..n
           /\ 1..n \subseteq DOMAIN s
           /\ \A i \in 1..n : SubSeq(s, 1, n)[i] = s[i]
<1>1. DOMAIN s = 1..Len(s) /\ Len(s) \in Nat /\ n \in Nat
  BY SeqDomain
<1>2. \A i \in 1..n : s[i] \in {s[j] : j \in DOMAIN s}
  BY <1>1
<1>3. /\ SubSeq(s, 1, n) \in Seq({s[j] : j \in DOMAIN s})
      /\ Len(SubSeq(s, 1, n)) = IF 1 <= n THEN n - 1 + 1 ELSE 0
      /\ \A i \in 1..(n - 1 + 1) : SubSeq(s, 1, n)[i] = s[1 + i - 1]
  BY <1>1, <1>2, SubSeqProperties
<1>4. Len(SubSeq(s, 1, n)) = n /\ DOMAIN SubSeq(s, 1, n) = 1..n
  BY <1>1, <1>3
<1>5. \A i \in 1..n : SubSeq(s, 1, n)[i] = s[i]
  BY <1>1, <1>3
<1>6. SubSeq(s, 1, n) = [i \in 1..n |-> SubSeq(s, 1, n)[i]]
  BY <1>3, <1>4
<1>7. IsSeq(SubSeq(s, 1, n))
  BY <1>1, <1>6, FunctionIsSequence
<1>. QED BY <1>1, <1>4, <1>5, <1>7

\* A write that is cut short leaves sound lines.
LEMMA PartialSound ==
    ASSUME NEW s, Sound(s), NEW w \in Partial(s)
    PROVE  Sound(w)
<1>1. IsSeq(s) /\ Len(s) \in Nat
  BY SeqDomain DEF Sound, Lines
<1>2. PICK n \in 0..Len(s) : w = SubSeq(s, 1, n) \/ w = Append(SubSeq(s, 1, n), Torn)
  BY <1>1 DEF Partial
<1>. DEFINE p == SubSeq(s, 1, n)
<1>3. /\ IsSeq(p) /\ DOMAIN p = 1..n /\ 1..n \subseteq DOMAIN s /\ n \in Nat
      /\ \A i \in 1..n : p[i] = s[i]
  BY <1>1, PrefixEntries
<1>. HIDE DEF p
<1>4. IsSeq(w) /\ \A i \in DOMAIN w : w[i] = Torn \/ (i \in DOMAIN s /\ w[i] = s[i])
  <2>1. CASE w = p
    BY <1>3, <2>1
  <2>2. CASE w = Append(p, Torn)
    <3>1. /\ IsSeq(w) /\ Len(w) = Len(p) + 1 /\ w[Len(p) + 1] = Torn
          /\ \A i \in 1..Len(p) : w[i] = p[i]
      BY <1>3, <2>2, Appending
    <3>2. DOMAIN w = 1..(Len(p) + 1) /\ Len(p) = n
      BY <1>3, <3>1, SeqDomain
    <3>. QED BY <1>3, <3>1, <3>2
  <2>. QED BY <1>2, <2>1, <2>2 DEF p
<1>5. \A i \in DOMAIN w : IsEvent(w[i]) => i \in DOMAIN s /\ w[i] = s[i]
  BY <1>4, TornIsNoEvent
<1>. QED BY <1>4, <1>5 DEF Sound, Lines, SealedBy, IsSeal

-----------------------------------------------------------------------------
(* The server's response.                                                  *)

LEMMA Rehashed ==
    ASSUME NEW o, o = [seq |-> o.seq, type |-> o.type, session |-> o.session,
                       payload |-> o.payload, prev |-> o.prev, hash |-> o.hash, sig |-> o.sig],
           NEW h, NEW g, NEW x, x = [o EXCEPT !.hash = h, !.sig = g]
    PROVE  x = [seq |-> o.seq, type |-> o.type, session |-> o.session,
                payload |-> o.payload, prev |-> o.prev, hash |-> h, sig |-> g]
OBVIOUS

LEMMA SealIsSeal ==
    ASSUME NEW last, last.seq \in Nat, NEW canon, NEW key, NEW stamped
    PROVE  LET e == SealEvent(last, canon, key, stamped)
           IN  IsSeal(e) /\ e.seq = last.seq + 1 /\ e.payload.body.server_pubkey = key
<1>. DEFINE b == [session_hash |-> last.hash, server_pubkey |-> key, imprint |-> stamped]
            bare == BuildEvent(last.seq + 1, "CHAIN_SEAL", last.session, Payload(b),
                               last.hash, NoKey)
            hash == SealHash(bare, canon)
            e == [bare EXCEPT !.hash = hash, !.sig = Signature(key, hash)]
<1>1. /\ bare = [seq |-> bare.seq, type |-> bare.type, session |-> bare.session,
                 payload |-> bare.payload, prev |-> bare.prev, hash |-> bare.hash,
                 sig |-> bare.sig]
      /\ bare.seq = last.seq + 1 /\ bare.type = "CHAIN_SEAL"
      /\ bare.payload.body.server_pubkey = key
  BY DEF BuildEvent, Payload
<1>. HIDE DEF bare, hash
<1>2. PICK x : x = e
  OBVIOUS
<1>3. x = [seq |-> bare.seq, type |-> bare.type, session |-> bare.session,
           payload |-> bare.payload, prev |-> bare.prev, hash |-> hash,
           sig |-> Signature(key, hash)]
  BY ONLY <1>1, <1>2, Rehashed
<1>4. "seq" \in DOMAIN x /\ "seq" \notin DOMAIN Torn
  BY <1>3 DEF Torn
<1>5. IsSeal(x) /\ x.seq = last.seq + 1 /\ x.payload.body.server_pubkey = key
  BY <1>1, <1>3, <1>4 DEF IsSeal, IsEvent
<1>. QED BY <1>2, <1>5 DEF SealEvent, bare, hash

\* The 409 and the order of the events: a response has one seal, by the server's key.
LEMMA ResponseLines ==
    ASSUME NEW s, Lines(s), NEW key
    PROVE  Lines(SealResponse(s, key).body) /\ SealedBy(SealResponse(s, key).body, key)
<1>1. CASE SealResponse(s, key) \in {Refused(400), Refused(409), Refused(422)}
  <2>1. SealResponse(s, key).body = <<>>
    BY <1>1 DEF Refused
  <2>. QED BY <2>1, EmptyLines DEF SealedBy
<1>2. CASE SealResponse(s, key) \notin {Refused(400), Refused(409), Refused(422)}
  <2>. DEFINE sorted == OrderBySeq(s)
              canon == SelectCanonicalization(s)
              stamped == Rfc3161Timestamp(sorted, canon) = "IMPRINT_MATCH"
              e == SealEvent(sorted[Len(sorted)], canon, key, stamped)
              w == Append(sorted, e)
  <2>. DEFINE Unread == s = <<>> \/ \E i \in DOMAIN s : ~IsEvent(s[i])
              Unfit == \/ PythonVerify(s, NoPin, FALSE).status # "INTACT"
                       \/ Of(s, "SESSION_END") = {}
  <2>0. SealResponse(s, key) = IF Unread THEN Refused(400)
                               ELSE IF AlreadySealed(s) THEN Refused(409)
                               ELSE IF Unfit THEN Refused(422)
                               ELSE [code |-> 200, body |-> w]
    BY DEF SealResponse
  <2>. HIDE DEF Unfit, w
  <2>1. ~Unread /\ ~AlreadySealed(s) /\ SealResponse(s, key) = [code |-> 200, body |-> w]
    BY <1>2, <2>0
  <2>2. SealResponse(s, key).body = w
    BY <2>1
  <2>3. IsSeq(s) /\ DOMAIN s = 1..Len(s) /\ Len(s) \in Nat
    BY SeqDomain DEF Lines
  <2>4. \A i \in DOMAIN s : ~IsSeal(s[i]) /\ s[i].seq \in Nat
    BY <2>1 DEF AlreadySealed, Of, IsSeal, Lines
  <2>5. /\ IsSeq(sorted) /\ Len(sorted) = Len(s)
        /\ \A k \in DOMAIN s : \E i \in DOMAIN s : sorted[k] = s[i]
    BY <2>3, <2>4, OrderBySeqSorts DEF HasNumbers
  <2>. HIDE DEF sorted, canon, stamped
  <2>6. Len(s) # 0
    BY <2>1, <2>3 DEF Lines, IsSeq
  <2>7. \A k \in 1..Len(s) : ~IsSeal(sorted[k]) /\ sorted[k].seq \in Nat
    BY <2>3, <2>4, <2>5
  <2>8. IsSeal(e) /\ e.seq \in Nat /\ e.payload.body.server_pubkey = key
    <3>1. sorted[Len(sorted)].seq \in Nat
      BY <2>3, <2>5, <2>6, <2>7
    <3>. QED BY <3>1, SealIsSeal
  <2>. HIDE DEF e
  <2>9. /\ IsSeq(w) /\ Len(w) = Len(s) + 1 /\ w[Len(s) + 1] = e
        /\ \A k \in 1..Len(s) : w[k] = sorted[k]
    BY <2>5, Appending DEF w
  <2>10. DOMAIN w = 1..(Len(s) + 1)
    BY <2>9, SeqDomain
  <2>11. \A k \in DOMAIN w : /\ w[k].seq \in Nat
                             /\ IsSeal(w[k]) => k = Len(s) + 1 /\ w[k] = e
    BY <2>3, <2>7, <2>8, <2>9, <2>10
  <2>12. Lines(w) /\ SealedBy(w, key)
    BY <2>8, <2>9, <2>11 DEF Lines, SealedBy
  <2>. QED BY <2>2, <2>12
<1>. QED BY <1>1, <1>2

-----------------------------------------------------------------------------
(* What a step does to the lines.                                          *)

LEMMA HeldEntries ==
    /\ \A p \in Paths : files[p] \in Held
    /\ \A c \in Clients : body[c] \in Held /\ reply[c].body \in Held
BY DEF Held

\* Lines that are new after a step are none, a response to a request, or the
\* beginning of lines there were.
New(s) ==
    \/ s \in Held \/ s = <<>>
    \/ server = "up" /\ \E c \in Clients : s = SealResponse(body[c], serverKey).body
    \/ \E c \in Clients : s \in Partial(reply[c].body)

\* What Exit does to the requests and responses.
LEMMA ExitHeld ==
    ASSUME Typed, NEW c \in Clients, NEW how, Exit(c, how)
    PROVE  /\ \A d \in Clients : /\ body'[d] \in {body[d], <<>>}
                                 /\ reply'[d].body \in {reply[d].body, <<>>}
           /\ body' = [d \in Clients |-> body'[d]] /\ reply' = [d \in Clients |-> reply'[d]]
           /\ out' = out
<1>1. Refused(0).body = <<>>
  BY DEF Refused
<1>. QED BY <1>1 DEF Exit, Typed

LEMMA HeldStep ==
    ASSUME Typed, NEW c \in Clients, ReadSession(c) \/ Command(c) \/ Killed(c)
    PROVE  /\ Typed' /\ UNCHANGED archeion
           /\ \A s \in Held' : New(s)
<1>1. ASSUME \A p \in Paths : New(files'[p]),
             \A d \in Clients : New(body'[d]) /\ New(reply'[d].body)
      PROVE  \A s \in Held' : New(s)
  BY <1>1 DEF Held
<1>2. ASSUME NEW s, s \in Held \/ s = <<>> PROVE New(s)
  BY <1>2 DEF New
<1>3. SessionFile \in Paths
  BY DEF SessionFile, Paths
<1>4. CASE ReadSession(c)
  <2>1. /\ UNCHANGED <<files, reply, archeion>>
        /\ body' = [body EXCEPT ![c] = files[SessionFile]]
        /\ \E p \in Paths : out' = [out EXCEPT ![c] = p]
    BY <1>4 DEF ReadSession
  <2>2. Typed'
    BY <2>1 DEF Typed
  <2>3. \A d \in Clients : body'[d] \in {body[d], files[SessionFile]}
    BY <2>1 DEF Typed
  <2>. QED BY <1>1, <1>2, <1>3, <2>1, <2>2, <2>3, HeldEntries
<1>5. CASE Answer(c)
  <2>1. /\ UNCHANGED <<files, body, out, archeion>> /\ server = "up"
        /\ reply' = [reply EXCEPT ![c] = SealResponse(body[c], serverKey)]
    BY <1>5 DEF Answer
  <2>2. Typed'
    BY <2>1 DEF Typed
  <2>3. \A d \in Clients : \/ reply'[d] = reply[d]
                           \/ reply'[d].body = SealResponse(body[c], serverKey).body
    BY <2>1 DEF Typed
  <2>4. \A d \in Clients : New(reply'[d].body)
    BY <1>2, <2>1, <2>3, HeldEntries DEF New
  <2>. QED BY <1>1, <1>2, <2>1, <2>2, <2>4, HeldEntries
<1>6. CASE Unreachable(c) \/ NoAnswer(c) \/ Rejected(c)
  <2>1. UNCHANGED <<files, archeion>> /\ \E how : Exit(c, how)
    BY <1>6 DEF Unreachable, NoAnswer, Rejected
  <2>2. Typed'
    BY <2>1, ExitHeld DEF Typed
  <2>. QED BY <1>1, <1>2, <2>1, <2>2, ExitHeld, HeldEntries
<1>7. CASE OpenOut(c)
  <2>1. /\ UNCHANGED <<body, reply, out, archeion>>
        /\ files' = [files EXCEPT ![out[c]] = <<>>]
    BY <1>7 DEF OpenOut
  <2>2. Typed' /\ \A p \in Paths : files'[p] \in {files[p], <<>>}
    BY <2>1 DEF Typed
  <2>. QED BY <1>1, <1>2, <2>1, <2>2, HeldEntries
<1>8. CASE WriteOut(c)
  <2>1. /\ UNCHANGED archeion /\ Exit(c, "sealed")
        /\ files' = [files EXCEPT ![out[c]] = reply[c].body]
    BY <1>8 DEF WriteOut
  <2>2. Typed' /\ \A p \in Paths : files'[p] \in {files[p], reply[c].body}
    BY <2>1, ExitHeld DEF Typed
  <2>. QED BY <1>1, <1>2, <2>1, <2>2, ExitHeld, HeldEntries
<1>9. CASE Killed(c)
  <2>1. UNCHANGED archeion /\ Exit(c, "killed")
    BY <1>9 DEF Killed
  <2>2. CASE UNCHANGED files
    <3>1. Typed'
      BY <2>1, <2>2, ExitHeld DEF Typed
    <3>. QED BY <1>1, <1>2, <2>1, <2>2, <3>1, ExitHeld, HeldEntries
  <2>3. CASE ~UNCHANGED files
    <3>1. PICK w \in Partial(reply[c].body) : files' = [files EXCEPT ![out[c]] = w]
      BY <1>9, <2>3 DEF Killed
    <3>2. Typed' /\ \A p \in Paths : files'[p] \in {files[p], w}
      BY <2>1, <3>1, ExitHeld DEF Typed
    <3>3. New(w)
      BY <3>1 DEF New
    <3>. QED BY <1>1, <1>2, <2>1, <3>2, <3>3, ExitHeld, HeldEntries
  <2>. QED BY <2>2, <2>3
<1>. QED BY <1>4, <1>5, <1>6, <1>7, <1>8, <1>9 DEF Command

LEMMA ClientStep ==
    ASSUME Inv, NEW c \in Clients, ReadSession(c) \/ Command(c) \/ Killed(c)
    PROVE  Inv'
<1>1. Typed' /\ UNCHANGED archeion /\ \A s \in Held' : New(s)
  BY HeldStep DEF Inv
<1>2. (Published' = Published) /\ (HasKey' <=> HasKey) /\ Server'
  BY <1>1 DEF Inv, Server, Published, HasKey, archeion
<1>3. ASSUME NEW s, New(s) PROVE Sound(s)
  <2>1. CASE s \in Held
    BY <2>1 DEF Inv
  <2>2. CASE s = <<>>
    BY <2>2, EmptySound
  <2>3. CASE server = "up" /\ \E d \in Clients : s = SealResponse(body[d], serverKey).body
    <3>1. PICK d \in Clients : s = SealResponse(body[d], serverKey).body
      BY <2>3
    <3>2. Lines(body[d])
      BY HeldEntries DEF Inv, Sound
    <3>3. Lines(s) /\ SealedBy(s, serverKey)
      BY <3>1, <3>2, ResponseLines
    <3>4. HasKey /\ serverKey = Published
      BY <2>3 DEF Inv, Server
    <3>. QED BY <3>3, <3>4 DEF Sound
  <2>4. CASE \E d \in Clients : s \in Partial(reply[d].body)
    BY <2>4, HeldEntries, PartialSound DEF Inv
  <2>. QED BY <1>3, <2>1, <2>2, <2>3, <2>4 DEF New
<1>4. ASSUME NEW s, Sound(s) PROVE Sound(s)'
  BY <1>2, <1>4 DEF Sound, SealedBy
<1>. QED BY <1>1, <1>2, <1>3, <1>4 DEF Inv

\* Once the server has a key for good, no start and no crash changes it.
LEMMA ServerStep ==
    ASSUME Inv, Starting \/ CrashServer
    PROVE  Inv'
<1>1. UNCHANGED <<files, client>>
  BY DEF Starting, StartServer, CreateKeyFile, WriteKey, CrashServer
<1>2. Typed' /\ Held' = Held
  BY <1>1 DEF Inv, Typed, Held, client
<1>3. Server' /\ (HasKey => HasKey' /\ Published' = Published)
  <2>1. CASE StartServer
    BY <2>1, SealingAssumption
    DEF StartServer, StartWithKey, KeyFileExists, Inv, Server, HasKey, Published
  <2>2. CASE CreateKeyFile
    BY <2>2, SealingAssumption DEF CreateKeyFile, Inv, Server, HasKey, Published
  <2>3. CASE WriteKey
    BY <2>3, SealingAssumption DEF WriteKey, Inv, Server, HasKey, Published
  <2>4. CASE CrashServer
    BY <2>4 DEF CrashServer, Inv, Server, HasKey, Published
  <2>. QED BY <2>1, <2>2, <2>3, <2>4 DEF Starting
<1>4. ASSUME NEW s, Sound(s) PROVE Sound(s)'
  BY <1>3, <1>4 DEF Sound, SealedBy
<1>. QED BY <1>2, <1>3, <1>4 DEF Inv

LEMMA InitInv == Init => Inv
<1>. SUFFICES ASSUME Init PROVE Inv
  OBVIOUS
<1>1. Typed /\ Server
  BY DEF Init, Typed, Server, SessionFile, Paths
<1>2. Held \subseteq {log, <<>>}
  <2>1. Refused(0).body = <<>>
    BY DEF Refused
  <2>. QED BY <2>1 DEF Init, Held
<1>3. Sound(log)
  <2>1. IsSeq(log) /\ \A i \in DOMAIN log : log[i].seq \in Nat /\ ~IsSeal(log[i])
    BY LogsAssumption DEF Init, IsSeq, IsSeal
  <2>. QED BY <2>1 DEF Sound, Lines, SealedBy
<1>. QED BY <1>1, <1>2, <1>3, EmptySound DEF Inv

LEMMA InvStep == Inv /\ [Next]_vars => Inv'
<1>. SUFFICES ASSUME Inv, [Next]_vars PROVE Inv'
  OBVIOUS
<1>1. CASE UNCHANGED vars
  BY <1>1
  DEF vars, client, archeion, Inv, Typed, Server, Held, HasKey, Published, Sound, SealedBy
<1>. QED BY <1>1, ClientStep, ServerStep DEF Next

LEMMA InvHolds == Spec => []Inv
BY InitInv, InvStep, PTL DEF Spec

-----------------------------------------------------------------------------
(* What a file, a request and a response have of the session.              *)

\* What a ledger exported, and its events in order.
IsExport(l) == IsSeq(l) /\ \A i \in DOMAIN l : IsEvent(l[i]) /\ l[i].seq \in Nat
                                                /\ l[i].type # "CHAIN_SEAL"

HasEnd(session, n) == \E i \in 1..n : session[i].type = "SESSION_END"

\* The first n lines of s are the session's.
Begins(s, session, n) ==
    /\ IsSeq(s) /\ n \in 0..Len(session) /\ n <= Len(s)
    /\ \A i \in 1..n : s[i] = session[i]

\* Nothing else, half a line, or a seal after a session that ended.
CutAt(s, session, n) == Begins(s, session, n) /\ Len(s) = n
TornAt(s, session, n) == Begins(s, session, n) /\ Len(s) = n + 1 /\ s[n + 1] = Torn
SealedAt(s, session, n) ==
    /\ Begins(s, session, n) /\ Len(s) = n + 1 /\ HasEnd(session, n)
    /\ IsSeal(s[n + 1]) /\ s[n + 1].seq = n + 1

IsPart(s, session) ==
    \E n \in 0..Len(session) : CutAt(s, session, n) \/ TornAt(s, session, n) \/ SealedAt(s, session, n)

\* What can be in a file, and in a response.
InFile(s, l) ==
    s = l \/ s = <<>> \/ (Numbered(OrderBySeq(l)) /\ IsPart(s, OrderBySeq(l)))

InResponse(s, l) ==
    s = <<>> \/ (Numbered(OrderBySeq(l)) /\ \E n \in 0..Len(l) : SealedAt(s, OrderBySeq(l), n))

\* What WholeOrDetected says of one file.
IsWhole(kept, session) ==
    \E n \in DOMAIN session \cap DOMAIN kept :
       /\ SubSeq(kept, 1, n) = SubSeq(session, 1, n)
       /\ Of(kept, "CHAIN_SEAL") = (n + 1)..Len(kept)
       /\ \E i \in 1..n : session[i].type = "SESSION_END"

LEMMA ExportInOrder ==
    ASSUME NEW l, IsExport(l)
    PROVE  /\ IsExport(OrderBySeq(l)) /\ Len(OrderBySeq(l)) = Len(l) /\ Len(l) \in Nat
           /\ DOMAIN l = 1..Len(l) /\ DOMAIN OrderBySeq(l) = 1..Len(l)
           /\ Of(l, "SESSION_END") # {} => HasEnd(OrderBySeq(l), Len(l))
<1>. PICK o : o = OrderBySeq(l)
  OBVIOUS
<1>1. HasNumbers(l) /\ IsSeq(l) /\ DOMAIN l = 1..Len(l) /\ Len(l) \in Nat
  BY SeqDomain DEF IsExport, HasNumbers
<1>2. /\ IsSeq(o) /\ Len(o) = Len(l)
      /\ \A k \in DOMAIN l : \E i \in DOMAIN l : o[k] = l[i]
      /\ \A i \in DOMAIN l : PlaceOf(l, i) \in DOMAIN l /\ o[PlaceOf(l, i)] = l[i]
  BY <1>1, OrderBySeqSorts
<1>3. DOMAIN o = 1..Len(l)
  BY <1>2, SeqDomain
<1>4. IsExport(o)
  <2>1. ASSUME NEW k \in DOMAIN o
        PROVE  IsEvent(o[k]) /\ o[k].seq \in Nat /\ o[k].type # "CHAIN_SEAL"
    <3>1. PICK i \in DOMAIN l : o[k] = l[i]
      BY <1>1, <1>2, <1>3
    <3>. QED BY <3>1 DEF IsExport
  <2>. QED BY <1>2, <2>1 DEF IsExport
<1>5. ASSUME NEW i \in Of(l, "SESSION_END") PROVE HasEnd(o, Len(l))
  <2>. PICK k : k = PlaceOf(l, i)
    OBVIOUS
  <2>1. i \in DOMAIN l /\ l[i].type = "SESSION_END"
    BY DEF Of
  <2>2. k \in 1..Len(l) /\ o[k] = l[i]
    BY <1>1, <1>2, <2>1
  <2>. QED BY <2>1, <2>2 DEF HasEnd
<1>. QED BY <1>1, <1>2, <1>3, <1>4, <1>5

\* What the Python verifier wants to see.
Accepted(s) == PythonVerify(s, NoPin, FALSE).status \in {"INTACT", "PARTIAL"}

LEMMA AcceptedFile ==
    ASSUME NEW s, Accepted(s)
    PROVE  /\ s # <<>> /\ \A i \in DOMAIN s : IsEvent(s[i])
           /\ Numbered(OrderBySeq(s))
           /\ Of(s, "SESSION_END") \cup Of(s, "CHAIN_SEAL") # {}
<1>1. /\ NoVerdict.status = "ERROR"
      /\ \A r, t : Verdict("COMPROMISED", "NO_EVIDENCE", r, t).status = "COMPROMISED"
  BY DEF NoVerdict, Verdict
<1>2. s # <<>> /\ ~(\E i \in DOMAIN s : ~IsEvent(s[i]))
  BY <1>1 DEF PythonVerify, Accepted
<1>3. Sequence(s) /\ Completeness(s)
  BY <1>1 DEF PythonVerify, Accepted
<1>. QED BY <1>2, <1>3 DEF Sequence, Completeness

\* A prefix of a numbered session is in order, and what is in it of a type is.
LEMMA CutInOrder ==
    ASSUME NEW session, IsExport(session), Numbered(session), NEW n, NEW s, CutAt(s, session, n)
    PROVE  /\ OrderBySeq(s) = s /\ IsExport(s)
           /\ Of(s, "SESSION_END") # {} => HasEnd(session, n)
<1>1. /\ IsSeq(s) /\ n \in Nat /\ DOMAIN s = 1..n /\ 1..n \subseteq DOMAIN session
      /\ \A i \in 1..n : s[i] = session[i]
  BY SeqDomain DEF CutAt, Begins, IsExport
<1>2. Numbered(s) /\ IsExport(s)
  BY <1>1 DEF Numbered, IsExport
<1>3. Of(s, "SESSION_END") # {} => HasEnd(session, n)
  BY <1>1 DEF Of, HasEnd
<1>. QED BY <1>1, <1>2, <1>3, NumberedIsSorted

LEMMA SealedInOrder ==
    ASSUME NEW session, IsExport(session), Numbered(session), NEW n, NEW s, SealedAt(s, session, n)
    PROVE  OrderBySeq(s) = s /\ Of(s, "CHAIN_SEAL") = {n + 1} /\ n \in Nat
<1>1. /\ IsSeq(s) /\ n \in Nat /\ DOMAIN s = 1..(n + 1) /\ 1..n \subseteq DOMAIN session
      /\ \A i \in 1..n : s[i] = session[i]
      /\ s[n + 1].type = "CHAIN_SEAL" /\ s[n + 1].seq = n + 1
  BY SeqDomain DEF SealedAt, Begins, IsExport, IsSeal
<1>2. Numbered(s)
  BY <1>1 DEF Numbered
<1>3. \A i \in 1..n : s[i].type # "CHAIN_SEAL"
  BY <1>1 DEF IsExport
<1>4. Of(s, "CHAIN_SEAL") = {n + 1}
  BY <1>1, <1>3 DEF Of
<1>. QED BY <1>1, <1>2, <1>4, NumberedIsSorted

LEMMA SamePrefix ==
    ASSUME NEW session, IsSeq(session), NEW n, NEW s, Begins(s, session, n)
    PROVE  SubSeq(s, 1, n) = SubSeq(session, 1, n)
<1>1. n \in 0..Len(s) /\ n \in 0..Len(session) /\ IsSeq(s)
  BY SeqDomain DEF Begins
<1>. PICK a, b : a = SubSeq(s, 1, n) /\ b = SubSeq(session, 1, n)
  OBVIOUS
<1>2. /\ IsSeq(a) /\ DOMAIN a = 1..n /\ \A i \in 1..n : a[i] = s[i]
      /\ IsSeq(b) /\ DOMAIN b = 1..n /\ \A i \in 1..n : b[i] = session[i]
  BY <1>1, PrefixEntries
<1>3. \A i \in 1..n : a[i] = b[i]
  BY <1>2 DEF Begins
<1>4. a = [i \in 1..n |-> a[i]] /\ b = [i \in 1..n |-> b[i]]
  BY <1>2 DEF IsSeq
<1>. QED BY <1>3, <1>4

LEMMA AcceptedIsWhole ==
    ASSUME NEW l, IsExport(l), NEW s, InFile(s, l), Accepted(s)
    PROVE  IsWhole(OrderBySeq(s), OrderBySeq(l))
<1>. PICK o : o = OrderBySeq(l)
  OBVIOUS
<1>1. /\ IsExport(o) /\ IsSeq(o) /\ Len(o) = Len(l) /\ Len(l) \in Nat
      /\ DOMAIN l = 1..Len(l) /\ DOMAIN o = 1..Len(l)
      /\ Of(l, "SESSION_END") # {} => HasEnd(o, Len(l))
  BY ExportInOrder DEF IsExport
<1>2. /\ s # <<>> /\ \A i \in DOMAIN s : IsEvent(s[i])
      /\ Of(s, "SESSION_END") \cup Of(s, "CHAIN_SEAL") # {}
  BY AcceptedFile
<1>3. ASSUME NEW n \in 0..Len(o), HasEnd(o, n)
      PROVE  n \in DOMAIN o
  BY <1>1, <1>3 DEF HasEnd
<1>4. CASE s = l
  <2>. PICK n : n = Len(l)
    OBVIOUS
  <2>1. Of(s, "CHAIN_SEAL") = {}
    BY <1>4 DEF Of, IsExport
  <2>2. HasEnd(o, n) /\ n \in DOMAIN o
    BY <1>1, <1>2, <1>3, <1>4, <2>1
  <2>3. Of(o, "CHAIN_SEAL") = {} /\ (n + 1)..Len(o) = {}
    BY <1>1 DEF Of, IsExport
  <2>. QED BY <1>4, <2>2, <2>3 DEF IsWhole, HasEnd
<1>5. ASSUME Numbered(o), NEW n \in 0..Len(o), CutAt(s, o, n)
      PROVE  IsWhole(OrderBySeq(s), o)
  <2>1. OrderBySeq(s) = s /\ IsExport(s) /\ (Of(s, "SESSION_END") # {} => HasEnd(o, n))
    BY <1>1, <1>5, CutInOrder
  <2>2. Of(s, "CHAIN_SEAL") = {}
    BY <2>1 DEF Of, IsExport
  <2>3. HasEnd(o, n) /\ n \in DOMAIN o
    BY <1>2, <1>3, <2>1, <2>2
  <2>4. Len(s) = n /\ (n + 1)..Len(s) = {} /\ n \in DOMAIN s /\ Begins(s, o, n)
    BY <1>5, <2>3, SeqDomain DEF CutAt, Begins, HasEnd
  <2>5. SubSeq(s, 1, n) = SubSeq(o, 1, n)
    BY <1>1, <2>4, SamePrefix
  <2>. QED BY <2>1, <2>2, <2>3, <2>4, <2>5 DEF IsWhole, HasEnd
<1>6. ASSUME Numbered(o), NEW n \in 0..Len(o), SealedAt(s, o, n)
      PROVE  IsWhole(OrderBySeq(s), o)
  <2>1. OrderBySeq(s) = s /\ Of(s, "CHAIN_SEAL") = {n + 1} /\ n \in Nat
    BY <1>1, <1>6, SealedInOrder
  <2>2. HasEnd(o, n) /\ n \in DOMAIN o /\ Begins(s, o, n) /\ Len(s) = n + 1
    BY <1>3, <1>6 DEF SealedAt
  <2>3. (n + 1)..Len(s) = {n + 1} /\ n \in DOMAIN s
    BY <1>1, <2>1, <2>2, SeqDomain DEF Begins
  <2>4. SubSeq(s, 1, n) = SubSeq(o, 1, n)
    BY <1>1, <2>2, SamePrefix
  <2>. QED BY <2>1, <2>2, <2>3, <2>4 DEF IsWhole, HasEnd
<1>7. ASSUME NEW n \in 0..Len(o), TornAt(s, o, n)
      PROVE  FALSE
  <2>1. n + 1 \in DOMAIN s /\ s[n + 1] = Torn
    BY <1>1, <1>7, SeqDomain DEF TornAt, Begins
  <2>. QED BY <1>2, <2>1, TornIsNoEvent
<1>. QED BY <1>2, <1>4, <1>5, <1>6, <1>7 DEF InFile, IsPart

\* A write that is cut short.
LEMMA PartialInFile ==
    ASSUME NEW l, IsExport(l), NEW s, InResponse(s, l), NEW w \in Partial(s)
    PROVE  InFile(w, l)
<1>. PICK o : o = OrderBySeq(l)
  OBVIOUS
<1>1. IsExport(o) /\ Len(o) = Len(l) /\ Len(l) \in Nat
  BY ExportInOrder
<1>2. CASE s = <<>>
  <2>1. 0..(Len(s) - 1) = {}
    BY <1>2
  <2>. QED BY <2>1 DEF Partial
<1>3. CASE s # <<>>
  <2>1. PICK n \in 0..Len(o) : SealedAt(s, o, n) /\ Numbered(o)
    BY <1>1, <1>3 DEF InResponse
  <2>2. IsSeq(s) /\ Len(s) = n + 1 /\ n \in Nat /\ \A i \in 1..n : s[i] = o[i]
    BY <1>1, <2>1 DEF SealedAt, Begins
  <2>3. PICK m \in 0..n : w = SubSeq(s, 1, m) \/ w = Append(SubSeq(s, 1, m), Torn)
    BY <2>2 DEF Partial
  <2>. PICK p : p = SubSeq(s, 1, m)
    OBVIOUS
  <2>4. /\ m \in Nat /\ m \in 0..Len(o) /\ IsSeq(p) /\ DOMAIN p = 1..m
        /\ \A i \in 1..m : p[i] = o[i]
    <3>1. m \in 0..Len(s) /\ m \in Nat /\ m \in 0..Len(o)
      BY <1>1, <2>2
    <3>2. IsSeq(p) /\ DOMAIN p = 1..m /\ \A i \in 1..m : p[i] = s[i]
      BY <2>2, <3>1, PrefixEntries
    <3>. QED BY <2>2, <3>1, <3>2
  <2>5. Len(p) = m
    BY <2>4, SeqDomain
  <2>6. CASE w = p
    BY <2>1, <2>4, <2>5, <2>6 DEF CutAt, Begins, InFile, IsPart
  <2>7. CASE w = Append(p, Torn)
    <3>1. /\ IsSeq(w) /\ Len(w) = m + 1 /\ w[m + 1] = Torn
          /\ \A i \in 1..m : w[i] = p[i]
      BY <2>4, <2>5, <2>7, Appending
    <3>2. TornAt(w, o, m)
      BY <2>4, <3>1 DEF TornAt, Begins
    <3>. QED BY <2>1, <2>4, <3>2 DEF InFile, IsPart
  <2>. QED BY <2>3, <2>6, <2>7
<1>. QED BY <1>2, <1>3

\* The server seals a session it can verify and that has an end, as far as it is there.
LEMMA ResponseIs ==
    ASSUME NEW l, IsExport(l), NEW s, InFile(s, l), NEW key
    PROVE  InResponse(SealResponse(s, key).body, l)
<1>1. CASE SealResponse(s, key) \in {Refused(400), Refused(409), Refused(422)}
  <2>1. SealResponse(s, key).body = <<>>
    BY <1>1 DEF Refused
  <2>. QED BY <2>1 DEF InResponse
<1>2. CASE SealResponse(s, key) \notin {Refused(400), Refused(409), Refused(422)}
  <2>. DEFINE sorted == OrderBySeq(s)
              canon == SelectCanonicalization(s)
              stamped == Rfc3161Timestamp(sorted, canon) = "IMPRINT_MATCH"
              e == SealEvent(sorted[Len(sorted)], canon, key, stamped)
              w == Append(sorted, e)
              Unread == s = <<>> \/ \E i \in DOMAIN s : ~IsEvent(s[i])
              Unfit == \/ PythonVerify(s, NoPin, FALSE).status # "INTACT"
                       \/ Of(s, "SESSION_END") = {}
  <2>0. SealResponse(s, key) = IF Unread THEN Refused(400)
                               ELSE IF AlreadySealed(s) THEN Refused(409)
                               ELSE IF Unfit THEN Refused(422)
                               ELSE [code |-> 200, body |-> w]
    BY DEF SealResponse
  <2>. HIDE DEF w, Unread, Unfit
  <2>1. /\ ~AlreadySealed(s) /\ Of(s, "SESSION_END") # {} /\ Accepted(s)
        /\ SealResponse(s, key).body = w
    <3>1. ~AlreadySealed(s) /\ ~Unfit /\ SealResponse(s, key) = [code |-> 200, body |-> w]
      BY <1>2, <2>0
    <3>2. Of(s, "SESSION_END") # {} /\ Accepted(s)
      BY <3>1 DEF Unfit, Accepted
    <3>. QED BY <3>1, <3>2
  <2>. PICK o : o = OrderBySeq(l)
    OBVIOUS
  <2>2. /\ IsExport(o) /\ Len(o) = Len(l) /\ Len(l) \in Nat /\ DOMAIN o = 1..Len(l)
        /\ Of(l, "SESSION_END") # {} => HasEnd(o, Len(l))
    BY ExportInOrder
  <2>3. PICK n \in 0..Len(o) : CutAt(sorted, o, n) /\ Numbered(o) /\ HasEnd(o, n)
    <3>1. CASE s = l
      <4>1. Numbered(o)
        BY <2>1, <3>1, AcceptedFile
      <4>2. CutAt(sorted, o, Len(l))
        BY <2>2, <3>1 DEF CutAt, Begins, IsExport
      <4>. QED BY <2>1, <2>2, <3>1, <4>1, <4>2
    <3>2. CASE s # l
      <4>1. s # <<>> /\ \A i \in DOMAIN s : IsEvent(s[i])
        BY <2>1, AcceptedFile
      <4>2. PICK n \in 0..Len(o) :
               Numbered(o) /\ (CutAt(s, o, n) \/ TornAt(s, o, n) \/ SealedAt(s, o, n))
        BY <3>2, <4>1 DEF InFile, IsPart
      <4>3. ~TornAt(s, o, n)
        BY <2>2, <4>1, SeqDomain, TornIsNoEvent DEF TornAt, Begins
      <4>4. ~SealedAt(s, o, n)
        BY <2>1, <2>2, <4>2, SealedInOrder DEF AlreadySealed
      <4>5. CutAt(s, o, n)
        BY <4>2, <4>3, <4>4
      <4>6. sorted = s /\ HasEnd(o, n)
        BY <2>1, <2>2, <4>2, <4>5, CutInOrder
      <4>. QED BY <4>2, <4>5, <4>6
    <3>. QED BY <3>1, <3>2
  <2>. HIDE DEF sorted, canon, stamped
  <2>4. /\ IsSeq(sorted) /\ Len(sorted) = n /\ n \in 1..Len(o)
        /\ \A i \in 1..n : sorted[i] = o[i]
    BY <2>2, <2>3 DEF CutAt, Begins, HasEnd
  <2>5. sorted[Len(sorted)].seq = n
    BY <2>2, <2>3, <2>4 DEF Numbered
  <2>6. IsSeal(e) /\ e.seq = n + 1
    <3>1. n \in Nat
      BY <2>4
    <3>. QED BY <2>5, <3>1, SealIsSeal
  <2>. HIDE DEF e
  <2>7. /\ IsSeq(w) /\ Len(w) = n + 1 /\ w[n + 1] = e
        /\ \A i \in 1..n : w[i] = o[i]
    BY <2>4, Appending DEF w
  <2>8. SealedAt(w, o, n)
    BY <2>2, <2>3, <2>6, <2>7 DEF SealedAt, Begins
  <2>. QED BY <2>1, <2>2, <2>3, <2>8 DEF InResponse
<1>. QED BY <1>1, <1>2

\* What is in the files comes from the session, and so do requests and responses.
Origins ==
    /\ log \in Logs
    /\ \A p \in Paths : InFile(files[p], log)
    /\ \A c \in Clients : InFile(body[c], log) /\ InResponse(reply[c].body, log)

LEMMA LogIsExport == log \in Logs => IsExport(log)
BY LogsAssumption DEF IsExport, IsSeq

LEMMA EmptyOrigins == \A l : InFile(<<>>, l) /\ InResponse(<<>>, l)
BY DEF InFile, InResponse

LEMMA ResponseInFile ==
    ASSUME NEW l, IsExport(l), NEW s, InResponse(s, l)
    PROVE  InFile(s, l)
BY ExportInOrder DEF InResponse, InFile, IsPart

LEMMA OriginsStep ==
    ASSUME Typed, Origins, NEW c \in Clients, ReadSession(c) \/ Command(c) \/ Killed(c)
    PROVE  Origins'
<1>1. /\ IsExport(log) /\ log \in Logs
      /\ \A p \in Paths : InFile(files[p], log)
      /\ \A d \in Clients : InFile(body[d], log) /\ InResponse(reply[d].body, log)
  BY LogIsExport DEF Origins
<1>2. log' = log
  BY DEF ReadSession, Command, Answer, Unreachable, NoAnswer, Rejected, OpenOut, WriteOut, Killed
<1>. SUFFICES /\ \A p \in Paths : InFile(files'[p], log)
              /\ \A d \in Clients : InFile(body'[d], log) /\ InResponse(reply'[d].body, log)
  BY <1>1, <1>2 DEF Origins
<1>3. CASE ReadSession(c)
  <2>1. UNCHANGED <<files, reply>> /\ body' = [body EXCEPT ![c] = files[SessionFile]]
    BY <1>3 DEF ReadSession
  <2>2. \A d \in Clients : body'[d] \in {body[d], files[SessionFile]}
    BY <2>1 DEF Typed
  <2>3. SessionFile \in Paths
    BY DEF SessionFile, Paths
  <2>. QED BY <1>1, <2>1, <2>2, <2>3
<1>4. CASE Answer(c)
  <2>1. UNCHANGED <<files, body>> /\ reply' = [reply EXCEPT ![c] = SealResponse(body[c], serverKey)]
    BY <1>4 DEF Answer
  <2>2. InResponse(SealResponse(body[c], serverKey).body, log)
    BY <1>1, ResponseIs
  <2>3. \A d \in Clients : reply'[d] \in {reply[d], SealResponse(body[c], serverKey)}
    BY <2>1 DEF Typed
  <2>. QED BY <1>1, <2>1, <2>2, <2>3
<1>5. ASSUME NEW how, Exit(c, how)
      PROVE  \A d \in Clients : InFile(body'[d], log) /\ InResponse(reply'[d].body, log)
  BY <1>1, <1>5, ExitHeld, EmptyOrigins
<1>6. CASE Unreachable(c) \/ NoAnswer(c) \/ Rejected(c)
  BY <1>1, <1>5, <1>6 DEF Unreachable, NoAnswer, Rejected
<1>7. CASE OpenOut(c)
  <2>1. UNCHANGED <<body, reply>> /\ files' = [files EXCEPT ![out[c]] = <<>>]
    BY <1>7 DEF OpenOut
  <2>2. \A p \in Paths : files'[p] \in {files[p], <<>>}
    BY <2>1 DEF Typed
  <2>. QED BY <1>1, <2>1, <2>2, EmptyOrigins
<1>8. CASE WriteOut(c)
  <2>1. Exit(c, "sealed") /\ files' = [files EXCEPT ![out[c]] = reply[c].body]
    BY <1>8 DEF WriteOut
  <2>2. \A p \in Paths : files'[p] \in {files[p], reply[c].body}
    BY <2>1 DEF Typed
  <2>3. InFile(reply[c].body, log)
    BY <1>1, ResponseInFile
  <2>. QED BY <1>1, <1>5, <2>1, <2>2, <2>3
<1>9. CASE Killed(c)
  <2>1. Exit(c, "killed")
    BY <1>9 DEF Killed
  <2>2. \A p \in Paths : InFile(files'[p], log)
    <3>1. CASE UNCHANGED files
      BY <1>1, <3>1
    <3>2. CASE ~UNCHANGED files
      <4>1. PICK w \in Partial(reply[c].body) : files' = [files EXCEPT ![out[c]] = w]
        BY <1>9, <3>2 DEF Killed
      <4>2. InFile(w, log)
        BY <1>1, PartialInFile
      <4>3. \A p \in Paths : files'[p] \in {files[p], w}
        BY <4>1 DEF Typed
      <4>. QED BY <1>1, <4>2, <4>3
    <3>. QED BY <3>1, <3>2
  <2>. QED BY <1>5, <2>1, <2>2
<1>. QED BY <1>3, <1>4, <1>6, <1>7, <1>8, <1>9 DEF Command

LEMMA OriginsHold == Spec => []Origins
<1>1. Init => Origins
  <2>. SUFFICES ASSUME Init PROVE Origins
    OBVIOUS
  <2>1. \A p \in Paths : files[p] \in {log, <<>>}
    BY DEF Init
  <2>2. InFile(log, log) /\ Refused(0).body = <<>>
    BY DEF InFile, Refused
  <2>. QED BY <2>1, <2>2, EmptyOrigins DEF Init, Origins
<1>2. Inv /\ Origins /\ [Next]_vars => Origins'
  <2>. SUFFICES ASSUME Inv, Origins, [Next]_vars PROVE Origins'
    OBVIOUS
  <2>1. CASE UNCHANGED <<log, files, client>>
    BY <2>1 DEF Origins, client
  <2>2. CASE Starting \/ CrashServer
    BY <2>1, <2>2 DEF Starting, StartServer, CreateKeyFile, WriteKey, CrashServer
  <2>3. CASE \E c \in Clients : ReadSession(c) \/ Command(c) \/ Killed(c)
    BY <2>3, OriginsStep DEF Inv
  <2>. QED BY <2>1, <2>2, <2>3 DEF Next, vars
<1>. QED BY <1>1, <1>2, InvHolds, PTL DEF Spec

-----------------------------------------------------------------------------
(* What the verifiers say of a response.                                   *)

LEMMA SealForm ==
    ASSUME NEW last, NEW canon, NEW key, NEW stamped,
           NEW e, e = SealEvent(last, canon, key, stamped)
    PROVE  /\ IsEvent(e) /\ e.seq = last.seq + 1 /\ e.type = "CHAIN_SEAL"
           /\ e.session = last.session /\ e.prev = last.hash
           /\ e.hash = ComputeEventHash(e, canon) /\ e.sig = Signature(key, e.hash)
           /\ Has(e.payload.body, "server_pubkey") /\ e.payload.body.server_pubkey = key
           /\ Has(e.payload.body, "session_hash") /\ e.payload.body.session_hash = last.hash
<1>. DEFINE b == [session_hash |-> last.hash, server_pubkey |-> key, imprint |-> stamped]
<1>. PICK bare : bare = BuildEvent(last.seq + 1, "CHAIN_SEAL", last.session, Payload(b),
                                   last.hash, NoKey)
  OBVIOUS
<1>. PICK hash : hash = SealHash(bare, canon)
  OBVIOUS
<1>1. /\ bare = [seq |-> bare.seq, type |-> bare.type, session |-> bare.session,
                 payload |-> bare.payload, prev |-> bare.prev, hash |-> bare.hash,
                 sig |-> bare.sig]
      /\ bare.seq = last.seq + 1 /\ bare.type = "CHAIN_SEAL" /\ bare.session = last.session
      /\ bare.prev = last.hash /\ bare.payload.body = b
  BY DEF BuildEvent, Payload
<1>2. e = [bare EXCEPT !.hash = hash, !.sig = Signature(key, hash)]
  BY DEF SealEvent
<1>3. e = [seq |-> bare.seq, type |-> bare.type, session |-> bare.session,
           payload |-> bare.payload, prev |-> bare.prev, hash |-> hash,
           sig |-> Signature(key, hash)]
  BY ONLY <1>1, <1>2, Rehashed
<1>4. IsEvent(e)
  <2>1. "seq" \in DOMAIN e /\ "seq" \notin DOMAIN Torn
    BY <1>3 DEF Torn
  <2>. QED BY <2>1 DEF IsEvent
<1>5. Digest(e) = Digest(bare)
  BY <1>3 DEF Digest
<1>6. e.hash = ComputeEventHash(e, canon)
  BY <1>3, <1>5 DEF SealHash, ComputeEventHash
<1>7. /\ Has(b, "server_pubkey") /\ b.server_pubkey = key
      /\ Has(b, "session_hash") /\ b.session_hash = last.hash
  BY DEF Has
<1>. QED BY <1>1, <1>3, <1>4, <1>6, <1>7

\* A session in order that the server may seal.
Fit(o, canon) ==
    /\ IsSeq(o) /\ Numbered(o) /\ canon # Unsupported
    /\ \A i \in DOMAIN o : IsEvent(o[i]) /\ o[i].type \in EventTypes \ {"CHAIN_SEAL", "LOG_DROP"}
    /\ \A i, j \in DOMAIN o : o[i].session = o[j].session
    /\ HashChain(o, canon)
    /\ Of(o, "SESSION_START") = {1} /\ Of(o, "SESSION_END") # {}
    /\ SelectCanonicalization(o) = canon
    /\ SessionSignatures(o, 1).valid

\* Both verifiers find it authoritative under the key.
Authoritative(w, key) ==
    /\ PythonVerify(w, key, TRUE).class = "AUTHORITATIVE_EVIDENCE"
    /\ RustVerify(w, key, TRUE).class = "AUTHORITATIVE_EVIDENCE"

LEMMA FirstStartIs ==
    ASSUME NEW s, NEW i \in Nat, Of(s, "SESSION_START") = {i}
    PROVE  FirstStart(s) = i /\ FileStart(s) = i
BY DEF FirstStart, FileStart

LEMMA SealedIsAuthoritative ==
    ASSUME NEW o, NEW canon, Fit(o, canon), NEW key, key # NoKey, NEW stamped
    PROVE  Authoritative(Append(o, SealEvent(o[Len(o)], canon, key, stamped)), key)
<1>. PICK n : n = Len(o)
  OBVIOUS
<1>. PICK e : e = SealEvent(o[n], canon, key, stamped)
  OBVIOUS
<1>. PICK w : w = Append(o, e)
  OBVIOUS
<1>1. /\ IsSeq(o) /\ DOMAIN o = 1..n /\ n \in Nat /\ 1 \in 1..n
      /\ \A i \in 1..n : o[i].seq = i
  BY SeqDomain DEF Fit, Numbered, Of
<1>2. /\ IsEvent(e) /\ e.seq = n + 1 /\ e.type = "CHAIN_SEAL"
      /\ e.session = o[n].session /\ e.prev = o[n].hash
      /\ e.hash = ComputeEventHash(e, canon) /\ e.sig = Signature(key, e.hash)
      /\ Has(e.payload.body, "server_pubkey") /\ e.payload.body.server_pubkey = key
      /\ Has(e.payload.body, "session_hash") /\ e.payload.body.session_hash = o[n].hash
  BY <1>1, SealForm
<1>3. /\ IsSeq(w) /\ Len(w) = n + 1 /\ w[n + 1] = e /\ \A i \in 1..n : w[i] = o[i]
      /\ DOMAIN w = 1..(n + 1)
  BY <1>1, Appending, SeqDomain
<1>4. Numbered(w) /\ OrderBySeq(w) = w
  <2>1. Numbered(w)
    BY <1>1, <1>2, <1>3 DEF Numbered
  <2>. QED BY <1>3, <2>1, NumberedIsSorted
<1>5. w # <<>> /\ ~(\E i \in DOMAIN w : ~IsEvent(w[i])) /\ Structural(w)
  <2>1. \A i \in 1..n : IsEvent(o[i]) /\ o[i].type \in EventTypes
    BY <1>1 DEF Fit
  <2>2. "CHAIN_SEAL" \in EventTypes
    BY DEF EventTypes, ServerTypes
  <2>. QED BY <1>1, <1>2, <1>3, <2>1, <2>2 DEF Structural
<1>6. Sequence(w)
  <2>1. \A i, j \in DOMAIN w : w[i].session = w[j].session
    <3>1. \A i \in DOMAIN w : w[i].session = o[n].session
      BY <1>1, <1>2, <1>3 DEF Fit
    <3>. QED BY <3>1
  <2>. QED BY <1>4, <2>1 DEF Sequence
<1>7. HashChain(w, canon)
  <2>1. ASSUME NEW i \in DOMAIN w
        PROVE  /\ w[i].hash = ComputeEventHash(w[i], canon)
               /\ w[i].prev = IF i = 1 THEN Genesis ELSE w[i - 1].hash
    <3>1. CASE i = n + 1
      BY <1>1, <1>2, <1>3, <3>1
    <3>2. CASE i # n + 1
      <4>1. i \in DOMAIN o /\ w[i] = o[i] /\ (i # 1 => w[i - 1] = o[i - 1])
        BY <1>1, <1>3, <3>2
      <4>. QED BY <4>1 DEF Fit, HashChain
    <3>. QED BY <3>1, <3>2
  <2>. QED BY <2>1 DEF HashChain
<1>8. /\ Of(w, "SESSION_START") = {1} /\ Of(w, "SESSION_END") # {}
      /\ Of(w, "CHAIN_SEAL") = {n + 1} /\ Of(w, "LOG_DROP") = {}
  <2>1. \A i \in 1..n : o[i].type \notin {"CHAIN_SEAL", "LOG_DROP"}
    BY <1>1 DEF Fit
  <2>2. /\ \A i \in DOMAIN w :
              i \in DOMAIN o \/ (i = n + 1 /\ w[i].type = "CHAIN_SEAL")
        /\ \A i \in DOMAIN o : i \in DOMAIN w
    BY <1>1, <1>2, <1>3
  <2>3. \A i \in DOMAIN o : w[i] = o[i] /\ o[i].type \notin {"CHAIN_SEAL", "LOG_DROP"}
    BY <1>1, <1>3, <2>1
  <2>4. n + 1 \in DOMAIN w /\ w[n + 1].type = "CHAIN_SEAL"
    BY <1>1, <1>2, <1>3
  <2>5. Of(w, "SESSION_START") = Of(o, "SESSION_START") /\ Of(w, "SESSION_END") = Of(o, "SESSION_END")
    BY ONLY <2>2, <2>3 DEF Of
  <2>6. Of(w, "CHAIN_SEAL") = {n + 1} /\ Of(w, "LOG_DROP") = {}
    BY ONLY <2>2, <2>3, <2>4 DEF Of
  <2>7. Of(o, "SESSION_START") = {1} /\ Of(o, "SESSION_END") # {}
    BY DEF Fit
  <2>. QED BY ONLY <2>5, <2>6, <2>7
<1>9. Completeness(w) /\ Bookends(w)
  <2>. 1 \in Of(w, "SESSION_START")
    BY ONLY <1>8
  <2>1. w[1].type = "SESSION_START" /\ Cardinality({1}) = 1
    BY ONLY FS_Singleton, 1 \in Of(w, "SESSION_START") DEF Of
  <2>2. Completeness(w)
    BY ONLY <1>4, <1>8, <2>1 DEF Completeness
  <2>3. w[Len(w)].type = "CHAIN_SEAL"
    BY <1>2, <1>3
  <2>. QED BY ONLY <1>8, <2>1, <2>2, <2>3 DEF Bookends
<1>10. SealSignature(w, key, TRUE)
  <2>1. e.sig # NoSig
    BY <1>2 DEF Signature, NoSig
  <2>2. Len(w) - 1 = n /\ Len(w) = n + 1 /\ n \in 1..n
    BY <1>1, <1>3
  <2>3. w[Len(w)] = e /\ w[Len(w) - 1] = o[n] /\ Of(w, "CHAIN_SEAL") = {Len(w)}
    BY <1>3, <1>8, <2>2
  <2>4. \E claim : /\ claim = e.payload.body /\ Has(claim, "server_pubkey")
                   /\ claim.server_pubkey = key /\ e.sig = Signature(claim.server_pubkey, e.hash)
                   /\ Has(claim, "session_hash") /\ claim.session_hash = o[n].hash
    BY ONLY <1>2
  <2>5. /\ Has(w[Len(w)].payload.body, "server_pubkey")
        /\ w[Len(w)].payload.body.server_pubkey = key
        /\ w[Len(w)].sig # NoSig
        /\ w[Len(w)].sig = Signature(w[Len(w)].payload.body.server_pubkey, w[Len(w)].hash)
        /\ Has(w[Len(w)].payload.body, "session_hash")
        /\ w[Len(w)].payload.body.session_hash = w[Len(w) - 1].hash
    BY ONLY <2>1, <2>3, <2>4
  <2>. QED BY ONLY <2>3, <2>5 DEF SealSignature
<1>11. FirstStart(w) = 1 /\ FileStart(w) = 1 /\ FirstStart(o) = 1 /\ w[1] = o[1]
  <2>1. Of(o, "SESSION_START") = {1} /\ 1 \in Nat
    BY DEF Fit
  <2>2. FirstStart(w) = 1 /\ FileStart(w) = 1 /\ FirstStart(o) = 1
    BY ONLY <1>8, <2>1, FirstStartIs
  <2>. QED BY <1>1, <1>3, <2>2
<1>12. SelectCanonicalization(w) = canon /\ canon # Unsupported
  <2>1. SelectCanonicalization(o) = canon /\ canon # Unsupported /\ Of(o, "SESSION_START") # {}
    BY DEF Fit
  <2>2. Of(w, "SESSION_START") # {}
    BY <1>8
  <2>. QED BY ONLY <1>11, <2>1, <2>2 DEF SelectCanonicalization
<1>13. SignatureCheck(w, 1).valid
  <2>1. DOMAIN w \ Of(w, "CHAIN_SEAL") = DOMAIN o \ Of(o, "CHAIN_SEAL")
    <3>1. Of(o, "CHAIN_SEAL") = {}
      BY DEF Fit, Of
    <3>. QED BY <1>1, <1>3, <1>8, <3>1
  <2>2. {i \in DOMAIN w \ Of(w, "CHAIN_SEAL") : w[i].sig # NoSig}
          = {i \in DOMAIN o \ Of(o, "CHAIN_SEAL") : o[i].sig # NoSig}
    BY <1>1, <1>3, <2>1
  <2>3. SessionSignatures(w, 1).valid = SessionSignatures(o, 1).valid
    BY <1>1, <1>3, <1>11, <2>1, <2>2 DEF SessionSignatures
  <2>. QED BY <1>8, <2>3 DEF Fit, SignatureCheck
<1>14. \A all : EvidenceClass(w, all, key) = "AUTHORITATIVE_EVIDENCE"
  BY <1>8 DEF EvidenceClass, NoPin
<1>15. \A status, class, root, timestamp : Verdict(status, class, root, timestamp).class = class
  BY DEF Verdict
<1>16. PythonVerify(w, key, TRUE).class = "AUTHORITATIVE_EVIDENCE"
  BY <1>4, <1>5, <1>6, <1>7, <1>9, <1>10, <1>11, <1>12, <1>13, <1>14, <1>15 DEF PythonVerify
<1>17. RustVerify(w, key, TRUE).class = "AUTHORITATIVE_EVIDENCE"
  BY <1>4, <1>5, <1>7, <1>9, <1>10, <1>11, <1>12, <1>13, <1>14, <1>15 DEF RustVerify
<1>. QED BY <1>16, <1>17 DEF Authoritative

\* What the server has verified before it seals.
Sealable(s) == PythonVerify(s, NoPin, FALSE).status = "INTACT"

LEMMA SealableFacts ==
    ASSUME NEW s, Sealable(s)
    PROVE  /\ SelectCanonicalization(s) # Unsupported
           /\ Structural(s) /\ Sequence(s) /\ Completeness(s)
           /\ HashChain(OrderBySeq(s), SelectCanonicalization(s))
           /\ SignatureCheck(s, FileStart(s)).valid /\ Of(s, "LOG_DROP") = {}
<1>1. /\ NoVerdict.status = "ERROR"
      /\ \A status, class, root, timestamp :
            Verdict(status, class, root, timestamp).status = status
  BY DEF NoVerdict, Verdict
<1>2. SelectCanonicalization(s) # Unsupported /\ Structural(s)
  BY <1>1 DEF PythonVerify, Sealable
<1>3. /\ Sequence(s) /\ Completeness(s)
      /\ HashChain(OrderBySeq(s), SelectCanonicalization(s))
      /\ SignatureCheck(s, FileStart(s)).valid
  BY <1>1 DEF PythonVerify, Sealable
<1>4. Of(s, "LOG_DROP") = {}
  BY <1>1 DEF PythonVerify, Sealable
<1>. QED BY <1>2, <1>3, <1>4

LEMMA SealableIsFit ==
    ASSUME NEW s, IsExport(s), Sealable(s), Of(s, "SESSION_END") # {}
    PROVE  Fit(OrderBySeq(s), SelectCanonicalization(s))
<1>. PICK o : o = OrderBySeq(s)
  OBVIOUS
<1>. PICK canon : canon = SelectCanonicalization(s)
  OBVIOUS
<1>1. /\ HasNumbers(s) /\ DOMAIN s = 1..Len(s) /\ Len(s) \in Nat
      /\ IsSeq(o) /\ Len(o) = Len(s) /\ DOMAIN o = 1..Len(s)
      /\ HasEnd(o, Len(s)) /\ IsExport(o)
  BY ExportInOrder DEF IsExport, HasNumbers
<1>2. /\ canon # Unsupported /\ Structural(s) /\ Sequence(s) /\ Completeness(s)
      /\ HashChain(o, canon) /\ SignatureCheck(s, FileStart(s)).valid /\ Of(s, "LOG_DROP") = {}
  BY SealableFacts
<1>3. ASSUME NEW k \in DOMAIN o
      PROVE  \E i \in DOMAIN s : PlaceOf(s, i) = k /\ o[k] = s[i]
  <2>1. PICK i \in DOMAIN s : PlaceOf(s, i) = k
    BY <1>1, PlaceBijective
  <2>. QED BY <1>1, <2>1, OrderBySeqSorts
<1>4. \A i \in DOMAIN s : PlaceOf(s, i) \in DOMAIN o /\ o[PlaceOf(s, i)] = s[i]
  BY <1>1, OrderBySeqSorts
<1>5. PICK start : Of(s, "SESSION_START") = {start}
  <2>1. Of(s, "SESSION_START") \in SUBSET (1..Len(s))
    BY <1>1 DEF Of
  <2>2. IsFiniteSet(1..Len(s))
    BY <1>1, IntervalSize
  <2>3. IsFiniteSet(Of(s, "SESSION_START")) /\ Cardinality(Of(s, "SESSION_START")) = 1
    BY <1>2, <2>1, <2>2, FS_Subset DEF Completeness
  <2>. QED BY <2>3, FS_Singleton
<1>6. start \in DOMAIN s /\ start \in Nat /\ s[start].type = "SESSION_START"
  BY <1>1, <1>5 DEF Of
<1>7. \A k \in DOMAIN o : o[k].type = "SESSION_START" <=> k = PlaceOf(s, start)
  BY <1>3, <1>4, <1>5, <1>6 DEF Of
<1>8. o[1].type = "SESSION_START" /\ 1 \in DOMAIN o
  <2>1. 1 \in DOMAIN o
    BY <1>1 DEF HasEnd
  <2>. QED BY <1>2, <2>1 DEF Completeness
<1>9. PlaceOf(s, start) = 1 /\ o[1] = s[start] /\ Of(o, "SESSION_START") = {1}
  <2>1. PlaceOf(s, start) = 1
    BY <1>7, <1>8
  <2>2. Of(o, "SESSION_START") = {1}
    BY <1>7, <1>8, <2>1 DEF Of
  <2>. QED BY <1>4, <1>6, <2>1, <2>2
<1>10. Numbered(o) /\ \A i, j \in DOMAIN o : o[i].session = o[j].session
  <2>1. Numbered(o) /\ \A i, j \in DOMAIN s : s[i].session = s[j].session
    BY <1>2 DEF Sequence
  <2>. QED BY <1>3, <2>1
<1>11. \A k \in DOMAIN o :
          IsEvent(o[k]) /\ o[k].type \in EventTypes \ {"CHAIN_SEAL", "LOG_DROP"}
  <2>1. \A i \in DOMAIN s :
           IsEvent(s[i]) /\ s[i].type \in EventTypes \ {"CHAIN_SEAL", "LOG_DROP"}
    BY <1>2 DEF IsExport, Structural, Of
  <2>. QED BY <1>3, <2>1
<1>12. FirstStart(s) = start /\ FileStart(s) = start /\ FirstStart(o) = 1
  <2>1. FirstStart(o) = 1
    BY <1>9, FirstStartIs
  <2>. QED BY <1>5, <1>6, <2>1, FirstStartIs
<1>13. SelectCanonicalization(o) = canon
  BY <1>5, <1>9, <1>12 DEF SelectCanonicalization
<1>14. SessionSignatures(o, 1).valid
  <2>. PICK key : key = o[1].payload.body.pubkey
    OBVIOUS
  <2>1. SessionSignatures(s, start).valid
    BY <1>2, <1>5, <1>12 DEF SignatureCheck
  <2>2. Of(s, "CHAIN_SEAL") = {} /\ Of(o, "CHAIN_SEAL") = {}
    BY <1>1 DEF IsExport, Of
  <2>3. CASE ~Has(o[1].payload.body, "pubkey") \/ key = NoKey
    BY <2>3 DEF SessionSignatures
  <2>4. CASE Has(o[1].payload.body, "pubkey") /\ key # NoKey
    <3>1. \A i \in {j \in DOMAIN s : s[j].sig # NoSig} : s[i].sig = Signature(key, s[i].hash)
      BY <1>9, <2>1, <2>2, <2>4 DEF SessionSignatures
    <3>2. \A k \in {j \in DOMAIN o : o[j].sig # NoSig} : o[k].sig = Signature(key, o[k].hash)
      BY <1>3, <3>1
    <3>. QED BY <2>2, <2>4, <3>2 DEF SessionSignatures
  <2>. QED BY <2>3, <2>4
<1>15. Of(o, "SESSION_END") # {}
  BY <1>1 DEF HasEnd, Of
<1>. QED BY <1>1, <1>2, <1>9, <1>10, <1>11, <1>13, <1>14, <1>15 DEF Fit

LEMMA ResponseIsAuthoritative ==
    ASSUME NEW l, IsExport(l), NEW s, InFile(s, l), NEW key, key # NoKey,
           SealResponse(s, key).code = 200
    PROVE  Authoritative(SealResponse(s, key).body, key)
<1>. DEFINE sorted == OrderBySeq(s)
            canon == SelectCanonicalization(s)
            stamped == Rfc3161Timestamp(sorted, canon) = "IMPRINT_MATCH"
            w == Append(sorted, SealEvent(sorted[Len(sorted)], canon, key, stamped))
            Unread == s = <<>> \/ \E i \in DOMAIN s : ~IsEvent(s[i])
            Unfit == \/ PythonVerify(s, NoPin, FALSE).status # "INTACT"
                     \/ Of(s, "SESSION_END") = {}
<1>1. SealResponse(s, key) = IF Unread THEN Refused(400)
                             ELSE IF AlreadySealed(s) THEN Refused(409)
                             ELSE IF Unfit THEN Refused(422)
                             ELSE [code |-> 200, body |-> w]
  BY DEF SealResponse
<1>. HIDE DEF w, Unread, Unfit
<1>2. ~Unread /\ ~AlreadySealed(s) /\ ~Unfit /\ SealResponse(s, key).body = w
  BY <1>1 DEF Refused
<1>3. s # <<>> /\ (\A i \in DOMAIN s : IsEvent(s[i])) /\ Sealable(s) /\ Of(s, "SESSION_END") # {}
  BY <1>2 DEF Unread, Unfit, Sealable
<1>4. IsExport(s)
  <2>. PICK o : o = OrderBySeq(l)
    OBVIOUS
  <2>1. CASE s = l
    BY <2>1
  <2>2. CASE s # l
    <3>1. IsExport(o)
      BY ExportInOrder
    <3>2. PICK n \in 0..Len(o) :
             Numbered(o) /\ (CutAt(s, o, n) \/ TornAt(s, o, n) \/ SealedAt(s, o, n))
      BY <1>3, <2>2 DEF InFile, IsPart
    <3>3. ~TornAt(s, o, n)
      BY <1>3, <3>1, SeqDomain, TornIsNoEvent DEF TornAt, Begins
    <3>4. ~SealedAt(s, o, n)
      BY <1>2, <3>1, <3>2, SealedInOrder DEF AlreadySealed
    <3>. QED BY <3>1, <3>2, <3>3, <3>4, CutInOrder
  <2>. QED BY <2>1, <2>2
<1>5. Fit(sorted, canon)
  BY <1>3, <1>4, SealableIsFit
<1>. HIDE DEF sorted, canon, stamped
<1>6. Authoritative(w, key)
  <2>1. \A x : Authoritative(Append(sorted, SealEvent(sorted[Len(sorted)], canon, key, x)), key)
    BY ONLY <1>5, key # NoKey, SealedIsAuthoritative
  <2>. QED BY <2>1 DEF w
<1>. QED BY <1>2, <1>6

\* What a client has received is authoritative under the published key, and its
\* command has not ended.
Replies ==
    /\ pc = [c \in Clients |-> pc[c]] /\ exit = [c \in Clients |-> exit[c]]
    /\ \A c \in Clients :
          /\ pc[c] \in {"reply", "write"} /\ reply[c].code = 200 =>
                HasKey /\ Authoritative(reply[c].body, Published)
          /\ pc[c] = "write" => reply[c].code = 200
          /\ pc[c] # "idle" => exit[c] = "none"

Ready(c) ==
    /\ pc[c] \in {"reply", "write"} /\ reply[c].code = 200 =>
          HasKey /\ Authoritative(reply[c].body, Published)
    /\ pc[c] = "write" => reply[c].code = 200
    /\ pc[c] # "idle" => exit[c] = "none"

LEMMA RepliesStep ==
    ASSUME Inv, Origins, Replies, NEW c \in Clients, ReadSession(c) \/ Command(c) \/ Killed(c)
    PROVE  Replies'
<1>1. /\ pc = [d \in Clients |-> pc[d]] /\ exit = [d \in Clients |-> exit[d]]
      /\ reply = [d \in Clients |-> reply[d]] /\ \A d \in Clients : Ready(d)
  BY DEF Replies, Ready, Inv, Typed
<1>2. HasKey' = HasKey /\ Published' = Published
  <2>1. UNCHANGED archeion
    BY DEF ReadSession, Command, Answer, Unreachable, NoAnswer, Rejected, OpenOut, WriteOut, Killed
  <2>. QED BY <2>1 DEF archeion, HasKey, Published
<1>3. ASSUME pc' = [d \in Clients |-> pc'[d]], exit' = [d \in Clients |-> exit'[d]],
             \A d \in Clients \ {c} : /\ pc'[d] = pc[d] /\ exit'[d] = exit[d]
                                      /\ reply'[d] = reply[d],
             Ready(c)'
      PROVE  Replies'
  <2>1. ASSUME NEW d \in Clients PROVE Ready(d)'
    BY <1>1, <1>2, <1>3 DEF Ready
  <2>. QED BY <1>3, <2>1 DEF Replies, Ready
<1>4. CASE ReadSession(c)
  <2>1. /\ pc' = [pc EXCEPT ![c] = "post"] /\ exit' = [exit EXCEPT ![c] = "none"]
        /\ reply' = reply
    BY <1>4 DEF ReadSession, Goto
  <2>2. pc'[c] = "post" /\ exit'[c] = "none"
    BY <1>1, <2>1
  <2>3. Ready(c)'
    BY <2>2 DEF Ready
  <2>. QED BY <1>1, <1>3, <2>1, <2>3
<1>5. CASE Answer(c)
  <2>1. /\ pc[c] = "post" /\ server = "up" /\ pc' = [pc EXCEPT ![c] = "reply"] /\ exit' = exit
        /\ reply' = [reply EXCEPT ![c] = SealResponse(body[c], serverKey)]
    BY <1>5 DEF Answer, Goto
  <2>2. HasKey /\ serverKey = Published /\ serverKey # NoKey
    BY <2>1, SealingAssumption DEF Inv, Server, HasKey, Published
  <2>3. IsExport(log) /\ InFile(body[c], log)
    BY LogIsExport DEF Origins
  <2>4. reply'[c] = SealResponse(body[c], serverKey) /\ pc'[c] = "reply" /\ exit'[c] = "none"
    BY <1>1, <2>1 DEF Ready
  <2>5. reply'[c].code = 200 => Authoritative(reply'[c].body, serverKey)
    BY <2>2, <2>3, <2>4, ResponseIsAuthoritative
  <2>6. Ready(c)'
    BY <1>2, <2>2, <2>4, <2>5 DEF Ready
  <2>. QED BY <1>1, <1>3, <2>1, <2>6
<1>6. ASSUME NEW how, Exit(c, how) PROVE Replies'
  <2>1. /\ pc' = [pc EXCEPT ![c] = "idle"] /\ exit' = [exit EXCEPT ![c] = how]
        /\ reply' = [reply EXCEPT ![c] = Refused(0)]
    BY <1>6 DEF Exit, Goto
  <2>2. pc'[c] = "idle"
    BY <1>1, <2>1
  <2>3. Ready(c)'
    BY <2>2 DEF Ready
  <2>. QED BY <1>1, <1>3, <2>1, <2>3
<1>7. CASE OpenOut(c)
  <2>1. /\ pc[c] = "reply" /\ reply[c].code = 200 /\ pc' = [pc EXCEPT ![c] = "write"]
        /\ UNCHANGED <<reply, exit>>
    BY <1>7 DEF OpenOut, Goto
  <2>2. Ready(c)'
    BY <1>1, <1>2, <2>1 DEF Ready
  <2>. QED BY <1>1, <1>3, <2>1, <2>2
<1>. QED BY <1>4, <1>5, <1>6, <1>7
         DEF Command, Unreachable, NoAnswer, Rejected, WriteOut, Killed

LEMMA RepliesHold == Spec => []Replies
<1>1. Init => Replies
  BY DEF Init, Replies
<1>2. Inv /\ Origins /\ Replies /\ [Next]_vars => Replies'
  <2>. SUFFICES ASSUME Inv, Origins, Replies, [Next]_vars PROVE Replies'
    OBVIOUS
  <2>1. CASE UNCHANGED <<client, keyFile>>
    BY <2>1 DEF Replies, client, HasKey, Published
  <2>2. CASE Starting \/ CrashServer
    <3>1. UNCHANGED client /\ (HasKey => HasKey' /\ Published' = Published)
      <4>1. UNCHANGED client
        BY <2>2 DEF Starting, StartServer, CreateKeyFile, WriteKey, CrashServer
      <4>2. HasKey => HasKey' /\ Published' = Published
        BY <2>2, SealingAssumption
        DEF Starting, StartServer, StartWithKey, CreateKeyFile, WriteKey, CrashServer,
            Inv, Server, HasKey, Published
      <4>. QED BY <4>1, <4>2
    <3>. QED BY <3>1 DEF Replies, client
  <2>3. CASE \E c \in Clients : ReadSession(c) \/ Command(c) \/ Killed(c)
    BY <2>3, RepliesStep
  <2>. QED BY <2>1, <2>2, <2>3 DEF Next, vars, archeion
<1>. QED BY <1>1, <1>2, InvHolds, OriginsHold, PTL DEF Spec

-----------------------------------------------------------------------------
(* The theorems.                                                           *)

\* However many commands seal one session, into one file or two, and whichever of
\* them are killed, time out or are run again: no file ever holds two seals.
THEOREM NoFileSealedTwice == Spec => []SealedAtMostOnce
<1>1. Inv => SealedAtMostOnce
  <2>. SUFFICES ASSUME Inv, NEW p \in Paths PROVE Cardinality(Seals(files[p])) <= 1
    BY DEF SealedAtMostOnce
  <2>1. Lines(files[p])
    BY HeldEntries DEF Inv, Sound
  <2>2. Seals(files[p]) = {} \/ \E i : Seals(files[p]) = {i}
    <3>1. \A i \in Seals(files[p]) : i \in DOMAIN files[p] /\ IsSeal(files[p][i])
      BY DEF Seals, Readable, Of, IsSeal
    <3>2. \A i, j \in Seals(files[p]) : i = j
      BY <2>1, <3>1 DEF Lines
    <3>. HIDE DEF Seals
    <3>. QED BY ONLY <3>2
  <2>3. CASE Seals(files[p]) = {}
    <3>1. Cardinality(Seals(files[p])) = 0
      BY <2>3, FS_EmptySet
    <3>. QED BY <3>1
  <2>4. CASE \E i : Seals(files[p]) = {i}
    <3>1. Cardinality(Seals(files[p])) = 1
      BY <2>4, FS_Singleton
    <3>. QED BY <3>1
  <2>. QED BY <2>2, <2>3, <2>4
<1>. QED BY <1>1, InvHolds, PTL

\* Through any number of crashes, at any point of the server's start, every seal in a
\* file carries the key that a server which is up publishes: a pin taken once stays
\* valid.
THEOREM PinsStayValid == Spec => []PinStaysValid
<1>1. Inv => PinStaysValid
  <2>. SUFFICES ASSUME Inv, server = "up", NEW p \in Paths, NEW i \in Seals(files[p])
                PROVE  files[p][i].payload.body.server_pubkey = serverKey
    BY DEF PinStaysValid
  <2>1. HasKey /\ serverKey = Published
    BY DEF Inv, Server
  <2>2. SealedBy(files[p], Published)
    BY <2>1, HeldEntries DEF Inv, Sound
  <2>3. i \in DOMAIN files[p] /\ IsSeal(files[p][i])
    BY DEF Seals, Readable, Of, IsSeal
  <2>. QED BY <2>1, <2>2, <2>3 DEF SealedBy
<1>. QED BY <1>1, InvHolds, PTL

\* Whatever is sealed in place or beside the session, cut short, sealed from what a cut
\* left, and read by anyone in between: a file that verifies holds the session as far as
\* a SESSION_END at least, and then nothing but a seal.
THEOREM CutFilesAreFound == Spec => []WholeOrDetected
<1>1. Origins => WholeOrDetected
  <2>. SUFFICES ASSUME Origins, NEW p \in Paths, Accepted(files[p])
                PROVE  IsWhole(OrderBySeq(files[p]), OrderBySeq(log))
    BY DEF WholeOrDetected, IsWhole, Accepted
  <2>1. IsExport(log) /\ InFile(files[p], log)
    BY LogIsExport DEF Origins
  <2>. QED BY <2>1, AcceptedIsWhole
<1>. QED BY <1>1, OriginsHold, PTL

\* A command that reports success leaves a file that both verifiers find authoritative
\* under the key the server publishes, whatever crashes and other commands came between
\* (sasana_cli.py, seal; archeion/server.py, seal).
THEOREM SuccessIsAuthoritative == Spec => SealedMeansAuthoritative
<1>1. Inv /\ Replies /\ [Next]_vars => [
         \A c \in Clients : pc[c] = "write" /\ exit'[c] = "sealed" =>
            LET pin == IF EnvKey # NoKey THEN EnvKey ELSE keyFile
                lines == files'[out[c]]
            IN  /\ PythonVerify(lines, pin, TRUE).class = "AUTHORITATIVE_EVIDENCE"
                /\ RustVerify(lines, pin, TRUE).class = "AUTHORITATIVE_EVIDENCE"]_vars
  <2>. SUFFICES ASSUME Inv, Replies, Next, NEW c \in Clients, pc[c] = "write", exit'[c] = "sealed"
                PROVE  Authoritative(files'[out[c]], Published)
    BY DEF Authoritative, Published
  <2>1. exit[c] = "none" /\ Authoritative(reply[c].body, Published) /\ Typed
        /\ exit = [d \in Clients |-> exit[d]]
    BY DEF Replies, Inv
  <2>2. ASSUME NEW d \in Clients, NEW how, Exit(d, how)
        PROVE  d = c /\ how = "sealed"
    BY <2>1, <2>2 DEF Exit
  <2>3. WriteOut(c)
    <3>1. exit' # exit
      BY <2>1
    <3>2. PICK d \in Clients : ReadSession(d) \/ Command(d) \/ Killed(d)
      BY <3>1 DEF Next, Starting, StartServer, CreateKeyFile, WriteKey, CrashServer, client
    <3>3. ~ReadSession(d) /\ ~Answer(d) /\ ~OpenOut(d)
      BY <2>1, <3>1 DEF ReadSession, Answer, OpenOut
    <3>4. ~Unreachable(d) /\ ~NoAnswer(d) /\ ~Rejected(d) /\ ~Killed(d)
      BY <2>2 DEF Unreachable, NoAnswer, Rejected, Killed
    <3>5. WriteOut(d)
      BY <3>2, <3>3, <3>4 DEF Command
    <3>. QED BY <2>2, <3>5 DEF WriteOut
  <2>4. out[c] \in Paths /\ files' = [files EXCEPT ![out[c]] = reply[c].body]
    BY <2>1, <2>3 DEF WriteOut, Typed
  <2>5. files'[out[c]] = reply[c].body
    BY <2>1, <2>4 DEF Typed
  <2>. QED BY <2>1, <2>5
<1>. QED BY <1>1, InvHolds, RepliesHold, PTL DEF Spec, SealedMeansAuthoritative
-----------------------------------------------------------------------------
(* What was recorded of a session (LogFile).                               *)

\* A line with the fields of an event and no others.
IsEnvelope(e) ==
    e = [seq |-> e.seq, type |-> e.type, session |-> e.session, payload |-> e.payload,
         prev |-> e.prev, hash |-> e.hash, sig |-> e.sig]

\* The canonicalization that a SESSION_START declares.
DeclaredBy(e) ==
    IF ~Has(e.payload.body, "canon") THEN Legacy
    ELSE IF e.payload.body.canon = Rfc8785 THEN Rfc8785 ELSE Unsupported

\* The token of a SESSION_START is absent or stamps the event without it.
TokenIsOwn(e) ==
    e.payload.token = NoToken
      \/ e.payload.token = <<ComputeEventHash(WithoutToken(e), DeclaredBy(e))>>

\* The log of a session with id sid, sealed or not.
IsRecord(L, sid) ==
    /\ IsSeq(L) /\ L # <<>> /\ Numbered(L)
    /\ \A i \in DOMAIN L : IsEnvelope(L[i]) /\ L[i].session = sid /\ L[i].type \in EventTypes
    /\ DeclaredBy(L[1]) \in Canonicalizations /\ HashChain(L, DeclaredBy(L[1]))
    /\ TokenIsOwn(L[1])
    /\ \A i \in DOMAIN L :
          IF L[i].type = "CHAIN_SEAL"
          THEN i = Len(L) /\ Of(L, "SESSION_END") # {}
          ELSE L[i].sig = Signature(L[1].payload.body.pubkey, L[i].hash)

LEMMA EnvelopeIsEvent == ASSUME NEW e, IsEnvelope(e) PROVE IsEvent(e)
<1>1. "seq" \in DOMAIN e /\ "seq" \notin DOMAIN Torn
  BY DEF IsEnvelope, Torn
<1>. QED BY <1>1 DEF IsEvent

LEMMA WrittenForm ==
    ASSUME NEW seq, NEW type, NEW session, NEW payload, NEW prev, NEW key, NEW canon,
           NEW e, e = Written(seq, type, session, payload, prev, key, canon)
    PROVE  /\ IsEnvelope(e) /\ e.seq = seq /\ e.type = type /\ e.session = session
           /\ e.payload = payload /\ e.prev = prev
           /\ e.hash = ComputeEventHash(e, canon) /\ e.sig = Signature(key, e.hash)
<1>. PICK bare : bare = BuildEvent(seq, type, session, payload, prev, NoKey)
  OBVIOUS
<1>. PICK hash : hash = ComputeEventHash(bare, canon)
  OBVIOUS
<1>1. /\ bare = [seq |-> bare.seq, type |-> bare.type, session |-> bare.session,
                 payload |-> bare.payload, prev |-> bare.prev, hash |-> bare.hash,
                 sig |-> bare.sig]
      /\ bare.seq = seq /\ bare.type = type /\ bare.session = session
      /\ bare.payload = payload /\ bare.prev = prev
  BY DEF BuildEvent
<1>2. e = [bare EXCEPT !.hash = hash, !.sig = Signature(key, hash)]
  BY DEF Written
<1>3. e = [seq |-> bare.seq, type |-> bare.type, session |-> bare.session,
           payload |-> bare.payload, prev |-> bare.prev, hash |-> hash,
           sig |-> Signature(key, hash)]
  BY ONLY <1>1, <1>2, Rehashed
<1>4. Digest(e) = Digest(bare)
  BY <1>3 DEF Digest
<1>5. e.hash = ComputeEventHash(e, canon)
  BY <1>3, <1>4 DEF ComputeEventHash
<1>. QED BY <1>1, <1>3, <1>5 DEF IsEnvelope

\* What the start declares is what the release that wrote it uses.
LEMMA StartDeclares ==
    ASSUME NEW canon \in Canonicalizations, NEW key, NEW e, e.payload.body = StartBody(canon, key)
    PROVE  DeclaredBy(e) = canon /\ e.payload.body.pubkey = key
BY DEF DeclaredBy, StartBody, Has, Canonicalizations, Rfc8785, Legacy

\* The first event, anchored or not.
LEMMA StartedForm ==
    ASSUME NEW session, NEW key, NEW canon \in Canonicalizations, NEW stamped,
           NEW e, e = Started(session, key, canon, stamped)
    PROVE  /\ IsEnvelope(e) /\ e.seq = 1 /\ e.type = "SESSION_START" /\ e.session = session
           /\ e.prev = Genesis /\ e.hash = ComputeEventHash(e, canon)
           /\ e.sig = Signature(key, e.hash) /\ e.payload.body = StartBody(canon, key)
           /\ TokenIsOwn(e)
<1>. PICK b : b = StartBody(canon, key)
  OBVIOUS
<1>. PICK f : f = Written(1, "SESSION_START", session, Payload(b), Genesis, key, canon)
  OBVIOUS
<1>1. /\ IsEnvelope(f) /\ f.seq = 1 /\ f.type = "SESSION_START" /\ f.session = session
      /\ f.payload = Payload(b) /\ f.prev = Genesis
      /\ f.hash = ComputeEventHash(f, canon) /\ f.sig = Signature(key, f.hash)
  BY WrittenForm
<1>2. f.payload = [body |-> b, token |-> NoToken]
  BY <1>1 DEF Payload
<1>3. CASE ~stamped
  <2>1. e = f
    BY <1>3 DEF Started
  <2>. QED BY <1>1, <1>2, <2>1 DEF TokenIsOwn
<1>4. CASE stamped
  <2>. PICK p : p = [f.payload EXCEPT !.token = <<f.hash>>]
    OBVIOUS
  <2>1. p = [body |-> b, token |-> <<f.hash>>]
    BY <1>2
  <2>2. e = Written(1, "SESSION_START", session, p, Genesis, key, canon)
    BY <1>4 DEF Started
  <2>3. /\ IsEnvelope(e) /\ e.seq = 1 /\ e.type = "SESSION_START" /\ e.session = session
        /\ e.payload = p /\ e.prev = Genesis
        /\ e.hash = ComputeEventHash(e, canon) /\ e.sig = Signature(key, e.hash)
    BY <2>2, WrittenForm
  <2>4. WithoutToken(e) = [seq |-> 1, type |-> "SESSION_START", session |-> session,
                           payload |-> [body |-> b, token |-> NoToken], prev |-> Genesis,
                           hash |-> e.hash, sig |-> e.sig]
    BY <2>1, <2>3 DEF WithoutToken, IsEnvelope
  <2>. PICK w : w = WithoutToken(e)
    OBVIOUS
  <2>5. Digest(w) = Digest(f)
    BY <1>1, <1>2, <2>4 DEF Digest
  <2>6. ComputeEventHash(w, canon) = f.hash
    BY <1>1, <2>5 DEF ComputeEventHash
  <2>7. DeclaredBy(e) = canon
    BY <2>1, <2>3, StartDeclares
  <2>8. TokenIsOwn(e)
    BY <2>1, <2>3, <2>6, <2>7 DEF TokenIsOwn
  <2>. QED BY <2>1, <2>3, <2>8
<1>. QED BY <1>3, <1>4

\* The log as the recursion of Recorded says: each event continues the one before it.
Continued(f, shape, session, key, canon, stamped) ==
    f = [i \in DOMAIN shape |->
           IF i = 1 THEN Started(session, key, canon, stamped)
           ELSE Written(i, shape[i], session,
                        Payload(IF shape[i] = "SESSION_START" THEN StartBody(canon, key)
                                ELSE [text |-> session]),
                        f[i - 1].hash, key, canon)]

\* There is such a log, built from its first event on, ...
LEMMA ContinuedExists ==
    ASSUME NEW shape, IsSeq(shape), NEW session, NEW key, NEW canon, NEW stamped
    PROVE  \E f : Continued(f, shape, session, key, canon, stamped)
<1>. PICK n : n = Len(shape)
  OBVIOUS
<1>1. n \in Nat /\ DOMAIN shape = 1..n
  BY SeqDomain
<1>. DEFINE Next1(i, h) ==
              IF i = 1 THEN Started(session, key, canon, stamped)
              ELSE Written(i, shape[i], session,
                           Payload(IF shape[i] = "SESSION_START" THEN StartBody(canon, key)
                                   ELSE [text |-> session]),
                           h, key, canon)
            UpToHere(f, m) == f = [i \in 1..m |-> Next1(i, f[i - 1].hash)]
            Missing == {m \in 0..n : ~\E f : UpToHere(f, m)}
<1>. HIDE DEF Next1
<1>2. Missing = {}
  <2>. SUFFICES ASSUME Missing # {} PROVE FALSE
    OBVIOUS
  <2>0. Missing \in SUBSET Nat
    BY <1>1
  <2>1. PICK m \in Missing : \A k \in Missing : m <= k
    BY <2>0, LeastElement
  <2>2. m \in 0..n /\ m \in Nat /\ ~\E f : UpToHere(f, m)
    BY <2>0, <2>1
  <2>3. CASE m = 0
    <3>. PICK f : f = [i \in 1..0 |-> i]
      OBVIOUS
    <3>1. UpToHere(f, 0)
      <4>1. 1..0 = {}
        OBVIOUS
      <4>. QED BY <4>1
    <3>. QED BY <2>2, <2>3, <3>1
  <2>4. CASE m # 0
    <3>1. m - 1 \in 0..n /\ m - 1 \in Nat /\ m - 1 \notin Missing
      BY <1>1, <2>1, <2>2, <2>4
    <3>2. PICK f : UpToHere(f, m - 1)
      BY <3>1
    <3>. PICK g : g = [i \in 1..m |-> IF i = m THEN Next1(m, f[m - 1].hash) ELSE f[i]]
      OBVIOUS
    <3>3. ASSUME NEW i \in 1..m PROVE g[i] = Next1(i, g[i - 1].hash)
      <4>1. CASE i = m /\ m = 1
        BY <4>1 DEF Next1
      <4>2. CASE i = m /\ m # 1
        <5>1. m - 1 \in 1..m /\ m - 1 # m
          BY <2>2, <4>2
        <5>. QED BY <4>2, <5>1
      <4>3. CASE i # m
        <5>1. i \in 1..(m - 1) /\ i - 1 # m
          BY <2>2, <4>3
        <5>2. g[i] = f[i] /\ f[i] = Next1(i, f[i - 1].hash)
          BY <3>2, <4>3, <5>1
        <5>3. CASE i = 1
          BY <5>2, <5>3 DEF Next1
        <5>4. CASE i # 1
          <6>1. i - 1 \in 1..m
            BY <2>2, <5>1, <5>4
          <6>2. g[i - 1] = f[i - 1]
            BY <5>1, <6>1
          <6>. QED BY <5>2, <6>2
        <5>. QED BY <5>3, <5>4
      <4>. QED BY <4>1, <4>2, <4>3
    <3>4. UpToHere(g, m)
      BY <3>3
    <3>. QED BY <2>2, <3>4
  <2>. QED BY <2>3, <2>4
<1>3. PICK f : UpToHere(f, n)
  <2>1. n \in 0..n
    BY <1>1
  <2>. QED BY <1>2, <2>1
<1>4. Continued(f, shape, session, key, canon, stamped)
  BY <1>1, <1>3 DEF Continued, Next1
<1>. QED BY <1>4

\* ... and Recorded is one.
LEMMA RecordedContinues ==
    ASSUME NEW shape, IsSeq(shape), NEW session, NEW key, NEW canon, NEW stamped
    PROVE  Continued(Recorded(shape, session, key, canon, stamped),
                     shape, session, key, canon, stamped)
<1>. PICK f : f = CHOOSE g : Continued(g, shape, session, key, canon, stamped)
  OBVIOUS
<1>1. Continued(f, shape, session, key, canon, stamped)
  BY ContinuedExists
<1>2. Recorded(shape, session, key, canon, stamped) = [i \in DOMAIN shape |-> f[i]]
  BY DEF Recorded, Continued
<1>3. f = [i \in DOMAIN shape |-> f[i]]
  BY <1>1 DEF Continued
<1>. QED BY <1>1, <1>2, <1>3

\* The log that the SDK writes is a record, under any shape, key and canonicalization.
LEMMA RecordedIsRecord ==
    ASSUME NEW shape \in Seq(SdkTypes), shape # <<>>, NEW session, NEW key,
           NEW canon \in Canonicalizations, NEW stamped,
           NEW L, L = Recorded(shape, session, key, canon, stamped)
    PROVE  /\ IsRecord(L, session) /\ Len(L) = Len(shape)
           /\ \A i \in DOMAIN L : L[i].type # "CHAIN_SEAL"
           /\ L[1].payload.body.pubkey = key
<1>. DEFINE P(i) == Payload(IF shape[i] = "SESSION_START" THEN StartBody(canon, key)
                            ELSE [text |-> session])
<1>. PICK n : n = Len(shape)
  OBVIOUS
<1>0. /\ IsSeq(shape) /\ n \in Nat \ {0} /\ DOMAIN shape = 1..n
      /\ \A i \in 1..n : shape[i] \in SdkTypes
  BY DEF IsSeq
<1>1. L = [i \in 1..n |->
             IF i = 1 THEN Started(session, key, canon, stamped)
             ELSE Written(i, shape[i], session, P(i), L[i - 1].hash, key, canon)]
  BY <1>0, RecordedContinues DEF Continued
<1>2. IsSeq(L) /\ Len(L) = n /\ DOMAIN L = 1..n /\ L # <<>> /\ 1 \in 1..n
  <2>1. L = [i \in 1..n |-> L[i]]
    BY <1>1
  <2>2. IsSeq(L) /\ Len(L) = n
    BY <1>0, <2>1, FunctionIsSequence
  <2>. QED BY <1>0, <1>1, <2>2
<1>3. L[1] = Started(session, key, canon, stamped)
  BY <1>1, <1>2
<1>4. /\ IsEnvelope(L[1]) /\ L[1].seq = 1 /\ L[1].type = "SESSION_START"
      /\ L[1].session = session /\ L[1].prev = Genesis
      /\ L[1].hash = ComputeEventHash(L[1], canon) /\ L[1].sig = Signature(key, L[1].hash)
      /\ L[1].payload.body = StartBody(canon, key) /\ TokenIsOwn(L[1])
  BY <1>3, StartedForm
<1>. HIDE DEF P
<1>5. ASSUME NEW i \in 2..n
      PROVE  /\ IsEnvelope(L[i]) /\ L[i].seq = i /\ L[i].type = shape[i]
             /\ L[i].session = session /\ L[i].prev = L[i - 1].hash
             /\ L[i].hash = ComputeEventHash(L[i], canon) /\ L[i].sig = Signature(key, L[i].hash)
  <2>1. i \in 1..n /\ i # 1
    BY <1>0
  <2>. PICK e : e = Written(i, shape[i], session, P(i), L[i - 1].hash, key, canon)
    OBVIOUS
  <2>2. L[i] = e
    BY <1>1, <2>1
  <2>3. /\ IsEnvelope(e) /\ e.seq = i /\ e.type = shape[i] /\ e.session = session
        /\ e.prev = L[i - 1].hash
        /\ e.hash = ComputeEventHash(e, canon) /\ e.sig = Signature(key, e.hash)
    BY WrittenForm
  <2>. QED BY <2>2, <2>3
<1>6. \A i \in 1..n : i = 1 \/ i \in 2..n
  BY <1>0
<1>7. ASSUME NEW i \in 1..n
      PROVE  /\ IsEnvelope(L[i]) /\ L[i].seq = i /\ L[i].type \in SdkTypes
             /\ L[i].session = session
             /\ L[i].hash = ComputeEventHash(L[i], canon) /\ L[i].sig = Signature(key, L[i].hash)
             /\ L[i].prev = IF i = 1 THEN Genesis ELSE L[i - 1].hash
  <2>1. "SESSION_START" \in SdkTypes
    BY DEF SdkTypes
  <2>2. CASE i = 1
    BY <1>4, <2>1, <2>2
  <2>3. CASE i \in 2..n
    <3>1. i # 1
      BY <2>3
    <3>. QED BY ONLY <1>0, <1>5, <2>3, <3>1, i \in 1..n
  <2>. QED BY <1>6, <2>2, <2>3
<1>8. \A i \in 1..n : L[i].type \in EventTypes /\ L[i].type # "CHAIN_SEAL"
  BY <1>7 DEF EventTypes, SdkTypes
<1>9. DeclaredBy(L[1]) = canon /\ L[1].payload.body.pubkey = key
  BY <1>4, StartDeclares
<1>10. Numbered(L) /\ HashChain(L, canon)
  BY <1>2, <1>7 DEF Numbered, HashChain
<1>. QED BY <1>2, <1>4, <1>7, <1>8, <1>9, <1>10 DEF IsRecord

\* What Archeion answers to a record is one, with the seal at its end.
LEMMA SealedIsRecord ==
    ASSUME NEW L, NEW sid, IsRecord(L, sid), \A i \in DOMAIN L : L[i].type # "CHAIN_SEAL",
           NEW key, SealResponse(L, key).code = 200
    PROVE  IsRecord(SealResponse(L, key).body, sid)
<1>. DEFINE sorted == OrderBySeq(L)
            canon == SelectCanonicalization(L)
            stamped == Rfc3161Timestamp(sorted, canon) = "IMPRINT_MATCH"
            w == Append(sorted, SealEvent(sorted[Len(sorted)], canon, key, stamped))
            Unread == L = <<>> \/ \E i \in DOMAIN L : ~IsEvent(L[i])
            Unfit == \/ PythonVerify(L, NoPin, FALSE).status # "INTACT"
                     \/ Of(L, "SESSION_END") = {}
<1>1. SealResponse(L, key) = IF Unread THEN Refused(400)
                             ELSE IF AlreadySealed(L) THEN Refused(409)
                             ELSE IF Unfit THEN Refused(422)
                             ELSE [code |-> 200, body |-> w]
  BY DEF SealResponse
<1>. HIDE DEF w, Unread, Unfit
<1>2. ~Unread /\ ~AlreadySealed(L) /\ ~Unfit /\ SealResponse(L, key).body = w
  <2>. PICK r : r = SealResponse(L, key)
    OBVIOUS
  <2>1. r.code = 200
    OBVIOUS
  <2>2. Refused(400).code # 200 /\ Refused(409).code # 200 /\ Refused(422).code # 200
    BY ONLY DEF Refused
  <2>3. ~Unread /\ ~AlreadySealed(L) /\ ~Unfit /\ r = [code |-> 200, body |-> w]
    BY ONLY <1>1, <2>1, <2>2, r = SealResponse(L, key)
  <2>. QED BY ONLY <2>3, r = SealResponse(L, key)
<1>3. Sealable(L) /\ Of(L, "SESSION_END") # {}
  BY <1>2 DEF Unfit, Sealable
<1>. PICK n : n = Len(L)
  OBVIOUS
<1>4. /\ IsSeq(L) /\ n \in Nat /\ DOMAIN L = 1..n /\ 1 \in 1..n /\ n \in 1..n
      /\ \A i \in 1..n : L[i].seq = i
  <2>1. IsSeq(L) /\ n \in Nat /\ DOMAIN L = 1..n /\ L # <<>>
    BY SeqDomain DEF IsRecord
  <2>2. n # 0
    BY <2>1 DEF IsSeq
  <2>. QED BY <2>1, <2>2 DEF IsRecord, Numbered
<1>5. IsExport(L)
  <2>1. \A i \in DOMAIN L : IsEvent(L[i])
    BY EnvelopeIsEvent DEF IsRecord
  <2>. QED BY <1>4, <2>1 DEF IsExport
<1>6. sorted = L
  BY NumberedIsSorted DEF IsRecord
<1>7. Fit(L, canon)
  BY <1>3, <1>5, <1>6, SealableIsFit
<1>8. canon = DeclaredBy(L[1])
  <2>1. Of(L, "SESSION_START") = {1}
    BY <1>7 DEF Fit
  <2>2. FirstStart(L) = 1
    BY <2>1, FirstStartIs
  <2>. QED BY <2>1, <2>2 DEF SelectCanonicalization, DeclaredBy
<1>. HIDE DEF sorted, canon, stamped
<1>. PICK e : e = SealEvent(L[n], canon, key, stamped)
  OBVIOUS
<1>9. w = Append(L, e)
  BY <1>6 DEF w
<1>10. /\ e.seq = n + 1 /\ e.type = "CHAIN_SEAL" /\ e.session = sid /\ e.prev = L[n].hash
       /\ e.hash = ComputeEventHash(e, canon) /\ IsEnvelope(e)
  <2>1. L[n].seq = n /\ L[n].session = sid
    BY <1>4 DEF IsRecord
  <2>2. /\ e.seq = L[n].seq + 1 /\ e.type = "CHAIN_SEAL" /\ e.session = L[n].session
        /\ e.prev = L[n].hash /\ e.hash = ComputeEventHash(e, canon)
    BY SealForm
  <2>3. IsEnvelope(e)
    <3>. PICK bare, h : /\ bare = BuildEvent(L[n].seq + 1, "CHAIN_SEAL", L[n].session,
                                    Payload([session_hash |-> L[n].hash, server_pubkey |-> key,
                                             imprint |-> stamped]), L[n].hash, NoKey)
                        /\ h = SealHash(bare, canon)
      OBVIOUS
    <3>1. e = [bare EXCEPT !.hash = h, !.sig = Signature(key, h)]
      BY DEF SealEvent
    <3>2. bare = [seq |-> bare.seq, type |-> bare.type, session |-> bare.session,
                  payload |-> bare.payload, prev |-> bare.prev, hash |-> bare.hash,
                  sig |-> bare.sig]
      BY DEF BuildEvent
    <3>. QED BY ONLY <3>1, <3>2 DEF IsEnvelope
  <2>. QED BY <2>1, <2>2, <2>3
<1>11. /\ IsSeq(w) /\ Len(w) = n + 1 /\ w[n + 1] = e /\ (\A i \in 1..n : w[i] = L[i])
       /\ DOMAIN w = 1..(n + 1) /\ w # <<>>
  <2>1. /\ IsSeq(w) /\ Len(w) = n + 1 /\ w[n + 1] = e /\ (\A i \in 1..n : w[i] = L[i])
    BY <1>4, <1>9, Appending
  <2>. QED BY <1>4, <2>1, SeqDomain
<1>12. \A i \in DOMAIN w : (i \in 1..n /\ w[i] = L[i]) \/ (i = n + 1 /\ w[i] = e)
  BY <1>4, <1>11
<1>13. Numbered(w)
  BY <1>4, <1>10, <1>12 DEF Numbered
<1>14. \A i \in DOMAIN w : IsEnvelope(w[i]) /\ w[i].session = sid /\ w[i].type \in EventTypes
  <2>1. "CHAIN_SEAL" \in EventTypes
    BY DEF EventTypes, ServerTypes
  <2>2. \A i \in 1..n : IsEnvelope(L[i]) /\ L[i].session = sid /\ L[i].type \in EventTypes
    BY <1>4 DEF IsRecord
  <2>. QED BY <1>10, <1>12, <2>1, <2>2
<1>15. w[1] = L[1]
  BY <1>4, <1>11
<1>16. HashChain(w, canon)
  <2>1. ASSUME NEW i \in DOMAIN w
        PROVE  /\ w[i].hash = ComputeEventHash(w[i], canon)
               /\ w[i].prev = IF i = 1 THEN Genesis ELSE w[i - 1].hash
    <3>1. CASE i = n + 1
      <4>1. i # 1 /\ i - 1 = n /\ w[i] = e /\ w[i - 1] = L[n]
        BY <1>4, <1>11, <3>1
      <4>. QED BY <1>10, <4>1
    <3>2. CASE i # n + 1
      <4>1. i \in 1..n /\ w[i] = L[i] /\ (i # 1 => w[i - 1] = L[i - 1])
        BY <1>4, <1>11, <3>2
      <4>2. HashChain(L, canon)
        BY <1>7 DEF Fit
      <4>. QED BY <1>4, <4>1, <4>2 DEF HashChain
    <3>. QED BY <3>1, <3>2
  <2>. QED BY <2>1 DEF HashChain
<1>17. Of(w, "SESSION_END") # {}
  <2>1. PICK j \in 1..n : L[j].type = "SESSION_END"
    BY <1>3, <1>4 DEF Of
  <2>2. j \in DOMAIN w /\ w[j] = L[j]
    BY <1>4, <1>11
  <2>. QED BY <2>1, <2>2 DEF Of
<1>18. ASSUME NEW i \in DOMAIN w
       PROVE  IF w[i].type = "CHAIN_SEAL"
              THEN i = Len(w) /\ Of(w, "SESSION_END") # {}
              ELSE w[i].sig = Signature(w[1].payload.body.pubkey, w[i].hash)
  <2>1. \A j \in 1..n : /\ L[j].type # "CHAIN_SEAL"
                        /\ L[j].sig = Signature(L[1].payload.body.pubkey, L[j].hash)
    BY <1>4 DEF IsRecord
  <2>2. CASE i = n + 1 /\ w[i] = e
    BY <1>10, <1>11, <1>17, <2>2
  <2>3. CASE i \in 1..n /\ w[i] = L[i]
    BY <1>15, <2>1, <2>3
  <2>. QED BY <1>12, <2>2, <2>3
<1>19. DeclaredBy(w[1]) = canon /\ canon \in Canonicalizations /\ TokenIsOwn(w[1])
  BY <1>8, <1>15 DEF IsRecord
<1>20. IsRecord(w, sid)
  BY <1>11, <1>13, <1>14, <1>16, <1>18, <1>19 DEF IsRecord
<1>. QED BY <1>2, <1>20

LEMMA OtherIsRecord ==
    /\ IsRecord(Other, "s2") /\ Other[1].payload.body.pubkey = NoKey
    /\ \A i \in DOMAIN Other : Other[i].type # "CHAIN_SEAL"
<1>. PICK shape : shape = <<"SESSION_START", "ACTION", "SESSION_END">>
  OBVIOUS
<1>1. shape \in Seq(SdkTypes) /\ shape # <<>>
  BY DEF SdkTypes
<1>2. Rfc8785 \in Canonicalizations
  BY DEF Canonicalizations
<1>3. Other = Recorded(shape, "s2", NoKey, Rfc8785, FALSE)
  BY DEF Other
<1>4. ASSUME NEW stamped, NEW L, L = Recorded(shape, "s2", NoKey, Rfc8785, stamped)
      PROVE  /\ IsRecord(L, "s2") /\ L[1].payload.body.pubkey = NoKey
             /\ \A i \in DOMAIN L : L[i].type # "CHAIN_SEAL"
  BY ONLY <1>1, <1>2, <1>4, RecordedIsRecord
<1>. QED BY ONLY <1>3, <1>4, Zenon

\* No event has the hash that stands for the lack of one.
LEMMA HashIsNoGenesis ==
    ASSUME NEW e, NEW canon
    PROVE  ComputeEventHash(e, canon) # Genesis
<1>1. Len(Digest(e)) = 5 /\ Len(<<Legacy, Digest(e)>>) = 2 /\ Len(Genesis) = 0
  BY DEF Digest, Genesis
<1>. QED BY <1>1 DEF ComputeEventHash

\* The events of o have the content of as many events of L, the first ones.
Follows(o, L) ==
    /\ Len(o) \in 1..Len(L)
    /\ \A i \in 1..Len(o) : SameContent(o[i], L[i])

\* A numbered chain whose last hash is that of an event of a record is that record up to
\* this event: the last hash commits to everything before it.
LEMMA ChainFollowsRecord ==
    ASSUME NEW o, IsSeq(o), o # <<>>, Numbered(o),
           NEW c \in Canonicalizations, HashChain(o, c),
           NEW L, NEW sid, IsRecord(L, sid), NEW k \in DOMAIN L, o[Len(o)].hash = L[k].hash
    PROVE  Follows(o, L)
<1>. PICK n : n = Len(o)
  OBVIOUS
<1>. PICK d : d = DeclaredBy(L[1])
  OBVIOUS
<1>1. n \in Nat \ {0} /\ DOMAIN o = 1..n /\ n \in DOMAIN o /\ \A i \in 1..n : o[i].seq = i
  <2>1. n \in Nat /\ DOMAIN o = 1..n
    BY SeqDomain
  <2>2. n # 0
    BY <2>1 DEF IsSeq
  <2>. QED BY <2>1, <2>2 DEF Numbered
<1>2. Len(L) \in Nat /\ DOMAIN L = 1..Len(L) /\ \A i \in DOMAIN L : L[i].seq = i
  BY SeqDomain DEF IsRecord, Numbered
<1>3. d \in Canonicalizations /\ HashChain(L, d)
  BY DEF IsRecord
<1>4. ASSUME NEW i \in DOMAIN o, NEW j \in DOMAIN L, o[i].hash = L[j].hash
      PROVE  SameContent(o[i], L[j])
  <2>1. o[i].hash = ComputeEventHash(o[i], c) /\ L[j].hash = ComputeEventHash(L[j], d)
    BY <1>3 DEF HashChain
  <2>. QED BY <1>3, <1>4, <2>1, HashFixesEvent
<1>5. k = n /\ n \in 1..Len(L)
  <2>1. SameContent(o[n], L[k])
    BY <1>1, <1>4
  <2>2. o[n].seq = n /\ L[k].seq = k
    BY <1>1, <1>2
  <2>. QED BY <1>2, <2>1, <2>2 DEF SameContent
<1>. PICK B : B = {i \in 1..n : o[i].hash # L[i].hash}
  OBVIOUS
<1>6. B = {}
  <2>. SUFFICES ASSUME B # {} PROVE FALSE
    OBVIOUS
  <2>1. PICK m \in B : \A i \in B : i <= m
    BY <1>1, GreatestElement
  <2>2. m \in 1..n /\ o[m].hash # L[m].hash /\ m # n
    BY <1>5
  <2>3. m + 1 \in 1..n /\ m + 1 \notin B /\ m + 1 # 1 /\ (m + 1) - 1 = m
    BY <1>1, <2>1, <2>2
  <2>4. m + 1 \in DOMAIN o /\ m + 1 \in DOMAIN L /\ o[m + 1].hash = L[m + 1].hash
    BY <1>1, <1>2, <1>5, <2>3
  <2>5. o[m + 1].prev = L[m + 1].prev
    BY <1>4, <2>4 DEF SameContent
  <2>6. o[m + 1].prev = o[m].hash /\ L[m + 1].prev = L[m].hash
    BY <1>3, <2>3, <2>4 DEF HashChain
  <2>. QED BY <2>2, <2>5, <2>6
<1>7. \A i \in 1..n : SameContent(o[i], L[i])
  <2>1. \A i \in 1..n : i \in DOMAIN o /\ i \in DOMAIN L /\ o[i].hash = L[i].hash
    BY <1>1, <1>2, <1>5, <1>6
  <2>. QED BY <1>4, <2>1
<1>. QED BY <1>5, <1>7 DEF Follows

-----------------------------------------------------------------------------
(* The inductive invariant of LogFile: whatever happens to a file, a line  *)
(* that still parses has a hash that some event was recorded with.         *)

IsTraced(h, L) == h = Genesis \/ \E k \in DOMAIN L : h = L[k].hash

IsLine(x, L) ==
    x = Torn \/ (/\ IsEnvelope(x) /\ x.seq \in Nat \ {0}
                 /\ IsTraced(x.hash, L) \/ IsTraced(x.hash, Other))

LogFileInv ==
    /\ IsRecord(recorded, "s1")
    /\ IsSeq(file) /\ \A i \in DOMAIN file : IsLine(file[i], recorded)

LEMMA RecordLines ==
    ASSUME NEW L, NEW sid, IsRecord(L, sid)
    PROVE  \A i \in DOMAIN L : IsLine(L[i], L)
<1>1. DOMAIN L = 1..Len(L) /\ Len(L) \in Nat
  BY SeqDomain DEF IsRecord
<1>. QED BY <1>1 DEF IsRecord, IsLine, IsTraced, Numbered

LEMMA LogFileInitInv == LogFileInit => LogFileInv
<1>. SUFFICES ASSUME LogFileInit PROVE LogFileInv
  OBVIOUS
<1>1. PICK shape \in Shapes, key \in Keys, canon \in Canons, stamped \in BOOLEAN :
         recorded \in Kept(Recorded(shape, "s1", key, canon, stamped))
  BY DEF LogFileInit, Originals
<1>. PICK L : L = Recorded(shape, "s1", key, canon, stamped)
  OBVIOUS
<1>2. IsRecord(L, "s1") /\ \A i \in DOMAIN L : L[i].type # "CHAIN_SEAL"
  <2>1. shape \in Seq(SdkTypes) /\ shape # <<>> /\ canon \in Canonicalizations
    BY LogFileAssumption DEF Canonicalizations
  <2>. QED BY <2>1, RecordedIsRecord
<1>3. IsRecord(recorded, "s1")
  <2>1. CASE recorded = L
    BY <1>2, <2>1
  <2>2. CASE recorded # L
    <3>1. SealResponse(L, ServerKey).code = 200 /\ recorded = SealResponse(L, ServerKey).body
      BY <1>1, <2>2 DEF Kept
    <3>. QED BY <1>2, <3>1, SealedIsRecord
  <2>. QED BY <2>1, <2>2
<1>. QED BY <1>3, RecordLines DEF LogFileInit, LogFileInv, IsRecord

\* A line whose one field changed.
LEMMA AlteredIsLine ==
    ASSUME NEW L, NEW e, IsLine(e, L), IsEvent(e), NEW x \in Altered(e)
    PROVE  IsLine(x, L)
<1>1. /\ IsEnvelope(e) /\ e.seq \in Nat \ {0}
      /\ IsTraced(e.hash, L) \/ IsTraced(e.hash, Other)
  BY DEF IsLine, IsEvent
<1>2. ASSUME IsEnvelope(x), x.seq \in Nat \ {0}, x.hash = e.hash PROVE IsLine(x, L)
  BY <1>1, <1>2 DEF IsLine
<1>3. CASE \E n \in {e.seq - 1, e.seq + 1} \ {0} : x = [e EXCEPT !.seq = n]
  <2>1. PICK n \in {e.seq - 1, e.seq + 1} \ {0} : x = [e EXCEPT !.seq = n]
    BY <1>3
  <2>2. n \in Nat \ {0}
    BY <1>1
  <2>3. IsEnvelope(x) /\ x.seq = n /\ x.hash = e.hash
    BY <1>1, <2>1 DEF IsEnvelope
  <2>. QED BY <1>2, <2>2, <2>3
<1>4. CASE \E y : x = [e EXCEPT !.type = y]
  <2>1. IsEnvelope(x) /\ x.seq = e.seq /\ x.hash = e.hash
    BY <1>1, <1>4 DEF IsEnvelope
  <2>. QED BY <1>1, <1>2, <2>1
<1>5. CASE \E y : x = [e EXCEPT !.session = y]
  <2>1. IsEnvelope(x) /\ x.seq = e.seq /\ x.hash = e.hash
    BY <1>1, <1>5 DEF IsEnvelope
  <2>. QED BY <1>1, <1>2, <2>1
<1>6. CASE \E y : x = [e EXCEPT !.prev = y]
  <2>1. IsEnvelope(x) /\ x.seq = e.seq /\ x.hash = e.hash
    BY <1>1, <1>6 DEF IsEnvelope
  <2>. QED BY <1>1, <1>2, <2>1
<1>7. CASE x = [e EXCEPT !.hash = Genesis]
  <2>1. IsEnvelope(x) /\ x.seq = e.seq /\ x.hash = Genesis
    BY <1>1, <1>7 DEF IsEnvelope
  <2>. QED BY <1>1, <2>1 DEF IsLine, IsTraced
<1>8. CASE \E y : x = [e EXCEPT !.sig = y]
  <2>1. IsEnvelope(x) /\ x.seq = e.seq /\ x.hash = e.hash
    BY <1>1, <1>8 DEF IsEnvelope
  <2>. QED BY <1>1, <1>2, <2>1
<1>9. CASE \/ x = [e EXCEPT !.payload.body = [text |-> "changed"]]
           \/ x = [e EXCEPT !.payload.token = NoToken]
  <2>1. PICK y : x = [e EXCEPT !.payload = y]
    BY <1>9
  <2>2. IsEnvelope(x) /\ x.seq = e.seq /\ x.hash = e.hash
    BY <1>1, <2>1 DEF IsEnvelope
  <2>. QED BY <1>1, <1>2, <2>2
<1>. QED BY <1>3, <1>4, <1>5, <1>6, <1>7, <1>8, <1>9 DEF Altered

\* Some of the lines of a file, from one place to another.
LEMMA PartLines ==
    ASSUME NEW S, NEW s \in Seq(S), NEW m \in Nat \ {0}, NEW n \in 0..Len(s)
    PROVE  SubSeq(s, m, n) \in Seq(S)
<1>1. \A i \in m..n : s[i] \in S
  OBVIOUS
<1>. QED BY <1>1, SubSeqProperties

LEMMA LogFileStep == LogFileInv /\ [LogFileNext]_logFileVars => LogFileInv'
<1>. SUFFICES ASSUME LogFileInv, [LogFileNext]_logFileVars PROVE LogFileInv'
  OBVIOUS
<1>1. IsRecord(recorded, "s1") /\ \A i \in DOMAIN file : IsLine(file[i], recorded)
  BY DEF LogFileInv
<1>2. \A j \in DOMAIN Other : IsLine(Other[j], recorded)
  <2>1. \A j \in DOMAIN Other : IsLine(Other[j], Other)
    BY OtherIsRecord, RecordLines
  <2>. QED BY <2>1 DEF IsLine
<1>3. IsLine(Torn, recorded)
  BY DEF IsLine
<1>. PICK S : S = {file[i] : i \in DOMAIN file} \cup {Other[j] : j \in DOMAIN Other} \cup {Torn}
  OBVIOUS
<1>4. file \in Seq(S) /\ Len(file) \in Nat /\ DOMAIN file = 1..Len(file)
  BY SeqDomain DEF LogFileInv, IsSeq
<1>5. \A z \in S : IsLine(z, recorded)
  BY <1>1, <1>2, <1>3
<1>6. ASSUME NEW next \in Seq(S), Fault(next) PROVE LogFileInv'
  <2>1. recorded' = recorded /\ file' = next
    BY <1>6 DEF Fault
  <2>2. IsSeq(next) /\ \A i \in DOMAIN next : IsLine(next[i], recorded)
    BY <1>5 DEF IsSeq
  <2>. QED BY <1>1, <2>1, <2>2 DEF LogFileInv
<1>7. CASE LoseLine
  <2>1. PICK i \in DOMAIN file : Fault(Remove(file, i))
    BY <1>7 DEF LoseLine
  <2>2. /\ i - 1 \in 0..Len(file) /\ i + 1 \in Nat \ {0}
        /\ Len(file) \in 0..Len(file) /\ 1 \in Nat \ {0}
    BY <1>4
  <2>3. SubSeq(file, 1, i - 1) \in Seq(S) /\ SubSeq(file, i + 1, Len(file)) \in Seq(S)
    BY <1>4, <2>2, PartLines
  <2>4. Remove(file, i) \in Seq(S)
    BY <2>3 DEF Remove
  <2>. QED BY <1>6, <2>1, <2>4
<1>8. CASE LoseTail
  <2>1. PICK n \in 1..(Len(file) - 1) : Fault(SubSeq(file, 1, n))
    BY <1>8 DEF LoseTail
  <2>2. n \in 0..Len(file) /\ 1 \in Nat \ {0}
    BY <1>4
  <2>3. SubSeq(file, 1, n) \in Seq(S)
    BY <1>4, <2>2, PartLines
  <2>. QED BY <1>6, <2>1, <2>3
<1>9. ASSUME NEW j \in 0..Len(file), NEW x \in S
      PROVE  InsertAfter(file, j, x) \in Seq(S)
  <2>1. j + 1 \in Nat \ {0} /\ Len(file) \in 0..Len(file) /\ 1 \in Nat \ {0}
    BY <1>4
  <2>2. SubSeq(file, 1, j) \in Seq(S) /\ SubSeq(file, j + 1, Len(file)) \in Seq(S)
    BY <1>4, <2>1, PartLines
  <2>3. <<x>> \in Seq(S)
    OBVIOUS
  <2>4. SubSeq(file, 1, j) \o <<x>> \in Seq(S)
    BY <2>2, <2>3
  <2>. QED BY <2>2, <2>4 DEF InsertAfter
<1>10. CASE RepeatLine
  <2>1. PICK i \in DOMAIN file, j \in DOMAIN file : Fault(InsertAfter(file, j, file[i]))
    BY <1>10 DEF RepeatLine
  <2>2. j \in 0..Len(file) /\ file[i] \in S
    BY <1>4
  <2>. QED BY <1>6, <1>9, <2>1, <2>2
<1>11. CASE MisplaceLine
  <2>1. PICK i \in 0..Len(file), j \in DOMAIN Other : Fault(InsertAfter(file, i, Other[j]))
    BY <1>11 DEF MisplaceLine
  <2>2. Other[j] \in S
    OBVIOUS
  <2>. QED BY <1>6, <1>9, <2>1, <2>2
<1>12. CASE SwapLines
  <2>1. PICK i \in DOMAIN file, j \in DOMAIN file :
           Fault([file EXCEPT ![i] = file[j], ![j] = file[i]])
    BY <1>12 DEF SwapLines
  <2>2. [file EXCEPT ![i] = file[j], ![j] = file[i]] \in Seq(S)
    BY <1>4
  <2>. QED BY <1>6, <2>1, <2>2
<1>13. CASE TearLine
  <2>1. PICK i \in DOMAIN file : Fault([file EXCEPT ![i] = Torn])
    BY <1>13 DEF TearLine
  <2>2. [file EXCEPT ![i] = Torn] \in Seq(S)
    BY <1>4
  <2>. QED BY <1>6, <2>1, <2>2
<1>14. CASE AlterLine
  <2>0. PICK i \in DOMAIN file : IsEvent(file[i])
           /\ \E e \in Altered(file[i]) : Fault([file EXCEPT ![i] = e])
    BY <1>14 DEF AlterLine
  <2>1. PICK e \in Altered(file[i]) : Fault([file EXCEPT ![i] = e])
    BY <2>0
  <2>2. IsLine(e, recorded)
    BY <1>1, <2>0, AlteredIsLine
  <2>. PICK next, T : next = [file EXCEPT ![i] = e] /\ T = S \cup {e}
    OBVIOUS
  <2>3. next \in Seq(T)
    BY <1>4
  <2>4. IsSeq(next) /\ \A j \in DOMAIN next : IsLine(next[j], recorded)
    <3>1. \A z \in T : IsLine(z, recorded)
      BY <1>5, <2>2
    <3>. QED BY ONLY <2>3, <3>1 DEF IsSeq
  <2>5. recorded' = recorded /\ file' = next
    BY <2>1 DEF Fault
  <2>. QED BY <1>1, <2>4, <2>5 DEF LogFileInv
<1>15. CASE UNCHANGED logFileVars
  BY <1>15 DEF logFileVars, LogFileInv
<1>. QED BY <1>7, <1>8, <1>10, <1>11, <1>12, <1>13, <1>14, <1>15 DEF LogFileNext

LEMMA LogFileInvHolds == LogFileSpec => []LogFileInv
BY LogFileInitInv, LogFileStep, PTL DEF LogFileSpec

-----------------------------------------------------------------------------
(* What passing the Python verifier means, and that it does not depend on  *)
(* the order of the lines.                                                 *)

Good(s, pin, requireSeal) ==
    /\ s # <<>> /\ Readable(s)
    /\ SelectCanonicalization(s) # Unsupported
    /\ Structural(s) /\ Sequence(s) /\ Completeness(s)
    /\ HashChain(OrderBySeq(s), SelectCanonicalization(s))
    /\ SealSignature(OrderBySeq(s), pin, requireSeal)
    /\ SignatureCheck(s, FileStart(s)).valid

LEMMA VerdictForm ==
    ASSUME NEW s, NEW pin, NEW requireSeal, NEW v, v = PythonVerify(s, pin, requireSeal)
    PROVE  /\ Good(s, pin, requireSeal) =>
                 /\ v.status = IF Of(s, "LOG_DROP") = {} THEN "INTACT" ELSE "PARTIAL"
                 /\ v.class = EvidenceClass(s, SignatureCheck(s, FileStart(s)).all, pin)
                 /\ v.timestamp = Rfc3161Timestamp(s, SelectCanonicalization(s))
           /\ ~Good(s, pin, requireSeal) =>
                 v.status \in {"ERROR", "COMPROMISED"} /\ v.class = "NO_EVIDENCE"
<1>1. ASSUME NEW status, NEW class, NEW root, NEW timestamp
      PROVE  /\ Verdict(status, class, root, timestamp).status = status
             /\ Verdict(status, class, root, timestamp).class = class
             /\ Verdict(status, class, root, timestamp).timestamp = timestamp
  BY DEF Verdict
<1>2. NoVerdict.status = "ERROR" /\ NoVerdict.class = "NO_EVIDENCE"
  BY <1>1 DEF NoVerdict
<1>. DEFINE unread == s = <<>> \/ \E i \in DOMAIN s : ~IsEvent(s[i])
            canon == SelectCanonicalization(s)
            sorted == OrderBySeq(s)
            root == sorted[Len(sorted)].hash
            fine == /\ Sequence(s) /\ HashChain(sorted, canon) /\ Completeness(s)
                    /\ SealSignature(sorted, pin, requireSeal)
                    /\ SignatureCheck(s, FileStart(s)).valid
<1>3. v = IF unread THEN NoVerdict
          ELSE IF canon = Unsupported THEN NoVerdict
          ELSE IF ~Structural(s) THEN Verdict("COMPROMISED", "NO_EVIDENCE", root, "SKIPPED")
          ELSE IF fine
               THEN Verdict(IF Of(s, "LOG_DROP") = {} THEN "INTACT" ELSE "PARTIAL",
                            EvidenceClass(s, SignatureCheck(s, FileStart(s)).all, pin), root,
                            Rfc3161Timestamp(s, canon))
          ELSE Verdict("COMPROMISED", "NO_EVIDENCE", root, Rfc3161Timestamp(s, canon))
  BY DEF PythonVerify
<1>4. Good(s, pin, requireSeal) <=> ~unread /\ canon # Unsupported /\ Structural(s) /\ fine
  BY DEF Good, Readable
<1>. HIDE DEF unread, canon, sorted, root, fine
<1>. QED BY ONLY <1>1, <1>2, <1>3, <1>4 DEF canon

\* Passing, having an exit code of its own, and being evidence are the same.
LEMMA PassingIsGood ==
    ASSUME NEW s, NEW pin, NEW requireSeal, NEW v, v = PythonVerify(s, pin, requireSeal)
    PROVE  /\ Intact(v) <=> Good(s, pin, requireSeal)
           /\ v.class # "NO_EVIDENCE" <=> Good(s, pin, requireSeal)
           /\ \A strict \in BOOLEAN :
                 VerifyExitCode(v, strict) \in {0, 2} => Good(s, pin, requireSeal)
           /\ VerifyExitCode(v, FALSE) \in {0, 2} <=> Good(s, pin, requireSeal)
<1>1. \A all : EvidenceClass(s, all, pin) # "NO_EVIDENCE"
  BY DEF EvidenceClass
<1>2. CASE Good(s, pin, requireSeal)
  <2>1. v.status \in {"INTACT", "PARTIAL"} /\ v.class # "NO_EVIDENCE"
    BY <1>1, <1>2, VerdictForm
  <2>. QED BY <1>2, <2>1 DEF Intact, VerifyExitCode, StatusCode
<1>3. CASE ~Good(s, pin, requireSeal)
  <2>1. v.status \in {"ERROR", "COMPROMISED"} /\ v.class = "NO_EVIDENCE"
    BY <1>3, VerdictForm
  <2>. QED BY <1>3, <2>1 DEF Intact, VerifyExitCode, StatusCode
<1>. QED BY <1>2, <1>3

LEMMA OneStart ==
    ASSUME NEW s, IsSeq(s)
    PROVE  Cardinality(Of(s, "SESSION_START")) = 1
             <=> \E a \in DOMAIN s : Of(s, "SESSION_START") = {a}
<1>. PICK S : S = Of(s, "SESSION_START")
  OBVIOUS
<1>1. DOMAIN s = 1..Len(s) /\ Len(s) \in Nat
  BY SeqDomain
<1>2. S \in SUBSET (1..Len(s)) /\ IsFiniteSet(1..Len(s))
  BY <1>1, IntervalSize DEF Of
<1>3. IsFiniteSet(S)
  BY <1>2, FS_Subset
<1>4. Cardinality(S) = 1 => \E a \in DOMAIN s : S = {a}
  <2>. SUFFICES ASSUME Cardinality(S) = 1 PROVE \E a \in DOMAIN s : S = {a}
    OBVIOUS
  <2>1. PICK a : S = {a}
    BY <1>3, FS_Singleton
  <2>. QED BY <1>1, <1>2, <2>1
<1>5. \A a : Cardinality({a}) = 1
  BY FS_Singleton
<1>. QED BY <1>4, <1>5

\* Entry by entry, t is s in another order, f says which.
Rearranges(f, s, t) ==
    /\ \A i \in DOMAIN s : f[i] \in DOMAIN t /\ t[f[i]] = s[i]
    /\ \A i, j \in DOMAIN s : f[i] = f[j] => i = j
    /\ \A k \in DOMAIN t : \E i \in DOMAIN s : f[i] = k

LEMMA RearrangedIsGood ==
    ASSUME NEW s, HasNumbers(s), NEW t, HasNumbers(t), NEW f, Rearranges(f, s, t),
           NEW o, o = OrderBySeq(s), o = OrderBySeq(t),
           NEW pin, NEW requireSeal, Good(s, pin, requireSeal)
    PROVE  Good(t, pin, requireSeal)
<1>1. /\ \A i \in DOMAIN s : f[i] \in DOMAIN t /\ t[f[i]] = s[i]
      /\ \A k \in DOMAIN t : \E i \in DOMAIN s : f[i] = k /\ t[k] = s[i]
  BY DEF Rearranges
<1>2. /\ s # <<>> /\ Readable(s) /\ SelectCanonicalization(s) # Unsupported
      /\ Structural(s) /\ Sequence(s) /\ Completeness(s)
      /\ HashChain(o, SelectCanonicalization(s)) /\ SealSignature(o, pin, requireSeal)
      /\ SignatureCheck(s, FileStart(s)).valid
  BY DEF Good
<1>3. /\ IsSeq(s) /\ DOMAIN s = 1..Len(s) /\ Len(s) \in Nat
      /\ IsSeq(t) /\ DOMAIN t = 1..Len(t) /\ Len(t) \in Nat
  BY SeqDomain DEF HasNumbers
<1>4. PICK a \in DOMAIN s : Of(s, "SESSION_START") = {a}
  BY <1>2, <1>3, OneStart DEF Completeness
<1>. PICK b : b = f[a]
  OBVIOUS
<1>5. /\ b \in DOMAIN t /\ t[b] = s[a] /\ Of(t, "SESSION_START") = {b}
      /\ a \in Nat /\ b \in Nat
  <2>1. b \in DOMAIN t /\ t[b] = s[a] /\ a \in Nat /\ b \in Nat
    BY <1>1, <1>3
  <2>2. ASSUME NEW k \in DOMAIN t PROVE t[k].type = "SESSION_START" <=> k = b
    <3>1. PICK i \in DOMAIN s : f[i] = k /\ t[k] = s[i]
      BY <1>1
    <3>2. s[i].type = "SESSION_START" <=> i = a
      BY <1>4 DEF Of
    <3>3. f[i] = f[a] => i = a
      BY DEF Rearranges
    <3>. QED BY ONLY <3>1, <3>2, <3>3, b = f[a]
  <2>3. Of(t, "SESSION_START") = {b}
    BY <2>1, <2>2 DEF Of
  <2>. QED BY <2>1, <2>3
<1>6. /\ FirstStart(s) = a /\ FileStart(s) = a /\ FirstStart(t) = b /\ FileStart(t) = b
  BY <1>4, <1>5, FirstStartIs
<1>7. SelectCanonicalization(t) = SelectCanonicalization(s)
  BY <1>4, <1>5, <1>6 DEF SelectCanonicalization
<1>8. t # <<>> /\ Readable(t) /\ Structural(t)
  <2>1. t # <<>>
    BY <1>5
  <2>. QED BY <1>1, <1>2, <2>1 DEF Readable, Structural
<1>9. Sequence(t)
  <2>1. \A i, j \in DOMAIN t : t[i].session = t[j].session
    BY <1>1, <1>2 DEF Sequence
  <2>. QED BY <1>2, <2>1 DEF Sequence
<1>10. Completeness(t)
  <2>1. Cardinality(Of(t, "SESSION_START")) = 1
    BY <1>5, FS_Singleton
  <2>2. Of(t, "SESSION_END") \cup Of(t, "CHAIN_SEAL") # {}
    <3>1. PICK i \in DOMAIN s : s[i].type \in {"SESSION_END", "CHAIN_SEAL"}
      BY <1>2 DEF Completeness, Of
    <3>. QED BY <1>1, <3>1 DEF Of
  <2>. QED BY <1>2, <2>1, <2>2 DEF Completeness
<1>11. SignatureCheck(t, b).valid
  <2>. PICK claim : claim = s[a].payload.body
    OBVIOUS
  <2>1. SessionSignatures(s, a).valid
    BY <1>2, <1>4, <1>6 DEF SignatureCheck
  <2>2. CASE ~Has(claim, "pubkey") \/ claim.pubkey = NoKey
    <3>1. SessionSignatures(t, b).valid
      BY <1>5, <2>2 DEF SessionSignatures
    <3>. QED BY <1>5, <3>1 DEF SignatureCheck
  <2>3. CASE Has(claim, "pubkey") /\ claim.pubkey # NoKey
    <3>1. \A i \in DOMAIN s : s[i].type # "CHAIN_SEAL" /\ s[i].sig # NoSig =>
             s[i].sig = Signature(claim.pubkey, s[i].hash)
      BY <2>1, <2>3 DEF SessionSignatures, Of
    <3>2. \A k \in DOMAIN t : t[k].type # "CHAIN_SEAL" /\ t[k].sig # NoSig =>
             t[k].sig = Signature(claim.pubkey, t[k].hash)
      BY <1>1, <3>1
    <3>3. t[b].payload.body = claim
      BY <1>5
    <3>4. SessionSignatures(t, b).valid
      BY <2>3, <3>2, <3>3 DEF SessionSignatures, Of
    <3>. QED BY <1>5, <3>4 DEF SignatureCheck
  <2>. QED BY <2>2, <2>3
<1>. QED BY <1>2, <1>6, <1>7, <1>8, <1>9, <1>10, <1>11 DEF Good

\* The reports, which put the events in order first, judge a file as `verify` does.
LEMMA SortedIsGood ==
    ASSUME NEW s, HasNumbers(s), NEW pin, NEW requireSeal
    PROVE  /\ Good(OrderBySeq(s), pin, requireSeal) <=> Good(s, pin, requireSeal)
           /\ OrderBySeq(OrderBySeq(s)) = OrderBySeq(s)
<1>. PICK o : o = OrderBySeq(s)
  OBVIOUS
<1>1. /\ DOMAIN s = 1..Len(s) /\ Len(s) \in Nat
      /\ IsSeq(o) /\ Len(o) = Len(s)
      /\ \A k \in DOMAIN s : \E i \in DOMAIN s : o[k] = s[i]
      /\ \A i \in DOMAIN s : PlaceOf(s, i) \in DOMAIN s /\ o[PlaceOf(s, i)] = s[i]
      /\ \A k, m \in DOMAIN s : k <= m => o[k].seq <= o[m].seq
  BY OrderBySeqSorts, SeqDomain DEF HasNumbers
<1>2. DOMAIN o = DOMAIN s
  BY <1>1, SeqDomain
<1>3. HasNumbers(o)
  BY <1>1, <1>2 DEF HasNumbers
<1>4. OrderBySeq(o) = o
  <2>1. Ascending(o)
    <3>1. ASSUME NEW i \in DOMAIN o, NEW j \in DOMAIN o, i < j PROVE o[i].seq <= o[j].seq
      <4>1. i <= j /\ i \in DOMAIN s /\ j \in DOMAIN s
        BY <1>1, <1>2, <3>1
      <4>. QED BY <1>1, <4>1
    <3>. QED BY ONLY <3>1 DEF Ascending
  <2>. QED BY <1>3, <2>1, AscendingIsSorted
<1>5. /\ \A i, j \in DOMAIN s : PlaceOf(s, i) = PlaceOf(s, j) => i = j
      /\ \A k \in DOMAIN s : \E i \in DOMAIN s : PlaceOf(s, i) = k
  BY PlaceBijective
<1>. PICK f : f = [i \in DOMAIN s |-> PlaceOf(s, i)]
  OBVIOUS
<1>. PICK g : g = [k \in DOMAIN s |-> CHOOSE i \in DOMAIN s : PlaceOf(s, i) = k]
  OBVIOUS
<1>6. \A i \in DOMAIN s : f[i] = PlaceOf(s, i)
  OBVIOUS
<1>7. \A k \in DOMAIN s : g[k] \in DOMAIN s /\ PlaceOf(s, g[k]) = k
  BY <1>5
<1>8. Rearranges(f, s, o)
  <2>1. \A i \in DOMAIN s : f[i] \in DOMAIN o /\ o[f[i]] = s[i]
    BY ONLY <1>1, <1>2, <1>6
  <2>2. \A i, j \in DOMAIN s : f[i] = f[j] => i = j
    BY ONLY <1>5, <1>6
  <2>3. \A k \in DOMAIN o : \E i \in DOMAIN s : f[i] = k
    BY ONLY <1>2, <1>5, <1>6
  <2>. QED BY <2>1, <2>2, <2>3 DEF Rearranges
<1>9. Rearranges(g, o, s)
  <2>1. \A k \in DOMAIN o : g[k] \in DOMAIN s /\ s[g[k]] = o[k]
    BY ONLY <1>1, <1>2, <1>7
  <2>2. \A k, m \in DOMAIN o : g[k] = g[m] => k = m
    BY ONLY <1>2, <1>7
  <2>3. \A i \in DOMAIN s : \E k \in DOMAIN o : g[k] = i
    <3>. SUFFICES ASSUME NEW i \in DOMAIN s PROVE \E k \in DOMAIN o : g[k] = i
      OBVIOUS
    <3>. PICK k : k = PlaceOf(s, i)
      OBVIOUS
    <3>1. k \in DOMAIN s /\ g[k] = i
      BY <1>1, <1>5, <1>7
    <3>. QED BY <1>2, <3>1
  <2>. QED BY <2>1, <2>2, <2>3 DEF Rearranges
<1>10. Good(s, pin, requireSeal) => Good(o, pin, requireSeal)
  BY <1>3, <1>4, <1>8, RearrangedIsGood
<1>11. Good(o, pin, requireSeal) => Good(s, pin, requireSeal)
  BY <1>3, <1>4, <1>9, RearrangedIsGood
<1>. QED BY <1>4, <1>10, <1>11

-----------------------------------------------------------------------------
(* What a file that passes has of what was recorded.                       *)

LEMMA ReadableFile ==
    ASSUME LogFileInv, Readable(file)
    PROVE  HasNumbers(file) /\ \A i \in DOMAIN file : IsEnvelope(file[i])
BY DEF LogFileInv, Readable, HasNumbers, IsLine, IsEvent

\* A numbered chain of lines of the file is what was recorded of one of the sessions.
LEMMA ChainIsRecorded ==
    ASSUME LogFileInv, NEW o, IsSeq(o), o # <<>>, Numbered(o), Readable(o),
           \A i \in DOMAIN o : IsLine(o[i], recorded),
           NEW c \in Canonicalizations, HashChain(o, c)
    PROVE  Follows(o, recorded) \/ Follows(o, Other)
<1>. PICK e : e = o[Len(o)]
  OBVIOUS
<1>1. Len(o) \in DOMAIN o
  <2>1. DOMAIN o = 1..Len(o) /\ Len(o) \in Nat
    BY SeqDomain
  <2>2. Len(o) # 0
    BY <2>1 DEF IsSeq
  <2>. QED BY <2>1, <2>2
<1>2. e.hash = ComputeEventHash(e, c) /\ IsLine(e, recorded) /\ e # Torn
  BY <1>1 DEF HashChain, Readable, IsEvent
<1>3. (\E k \in DOMAIN recorded : e.hash = recorded[k].hash)
        \/ \E k \in DOMAIN Other : e.hash = Other[k].hash
  <2>1. e.hash # Genesis
    BY <1>2, HashIsNoGenesis
  <2>. QED BY <1>2, <2>1 DEF IsLine, IsTraced
<1>4. CASE \E k \in DOMAIN recorded : e.hash = recorded[k].hash
  BY <1>4, ChainFollowsRecord DEF LogFileInv
<1>5. CASE \E k \in DOMAIN Other : e.hash = Other[k].hash
  BY <1>5, OtherIsRecord, ChainFollowsRecord
<1>. QED BY <1>3, <1>4, <1>5

\* A file that passes, put in order, and the log of the session it bears the id of.
LEMMA GoodFollows ==
    ASSUME LogFileInv, NEW pin, NEW requireSeal, Good(file, pin, requireSeal),
           NEW o, o = OrderBySeq(file)
    PROVE  /\ IsSeq(o) /\ Len(o) \in Nat \ {0} /\ DOMAIN o = 1..Len(o)
           /\ \A k \in DOMAIN o : IsEnvelope(o[k])
           /\ Follows(o, Original) /\ Original \in {recorded, Other}
           /\ \E sid : IsRecord(Original, sid)
           /\ \E a \in DOMAIN file : Of(file, "SESSION_START") = {a} /\ file[a] = o[1]
           /\ \A k \in DOMAIN o : \E i \in DOMAIN file : o[k] = file[i]
           /\ \A i \in DOMAIN file : \E k \in DOMAIN o : o[k] = file[i]
<1>1. /\ file # <<>> /\ Readable(file) /\ SelectCanonicalization(file) # Unsupported
      /\ Sequence(file) /\ Completeness(file)
      /\ HashChain(o, SelectCanonicalization(file))
  BY DEF Good
<1>2. HasNumbers(file) /\ (\A i \in DOMAIN file : IsEnvelope(file[i])) /\ IsSeq(file)
  BY <1>1, ReadableFile DEF HasNumbers
<1>3. /\ DOMAIN file = 1..Len(file) /\ Len(file) \in Nat
      /\ IsSeq(o) /\ Len(o) = Len(file)
      /\ \A k \in DOMAIN file : \E i \in DOMAIN file : o[k] = file[i]
      /\ \A i \in DOMAIN file : PlaceOf(file, i) \in DOMAIN file /\ o[PlaceOf(file, i)] = file[i]
  BY <1>2, OrderBySeqSorts, SeqDomain
<1>4. DOMAIN o = DOMAIN file /\ Len(o) \in Nat \ {0} /\ o # <<>> /\ 1 \in DOMAIN file
  <2>1. Len(file) # 0
    BY <1>1, <1>2, <1>3 DEF IsSeq
  <2>. QED BY <1>3, <2>1, SeqDomain
<1>5. /\ \A k \in DOMAIN o : \E i \in DOMAIN file : o[k] = file[i]
      /\ \A i \in DOMAIN file : \E k \in DOMAIN o : o[k] = file[i]
  BY <1>3, <1>4
<1>6. /\ \A k \in DOMAIN o : IsEnvelope(o[k]) /\ IsLine(o[k], recorded)
      /\ Readable(o)
  BY <1>1, <1>2, <1>5 DEF LogFileInv, Readable
<1>7. Follows(o, recorded) \/ Follows(o, Other)
  <2>1. SelectCanonicalization(file) \in Canonicalizations
    BY <1>1 DEF SelectCanonicalization, Canonicalizations
  <2>2. Numbered(o)
    BY <1>1 DEF Sequence
  <2>. QED BY <1>1, <1>3, <1>4, <1>6, <2>1, <2>2, ChainIsRecorded
<1>8. file[1].session = o[1].session /\ 1 \in DOMAIN o
  <2>1. 1 \in DOMAIN o
    BY ONLY <1>4
  <2>2. PICK i \in DOMAIN file : o[1] = file[i]
    BY ONLY <1>5, <2>1
  <2>3. \A j, k \in DOMAIN file : file[j].session = file[k].session
    BY ONLY <1>1 DEF Sequence
  <2>. QED BY ONLY <1>4, <2>1, <2>2, <2>3
<1>9. IsRecord(recorded, "s1") /\ IsRecord(Other, "s2")
  BY OtherIsRecord DEF LogFileInv
<1>10. ASSUME NEW L, NEW sid, IsRecord(L, sid), Follows(o, L)
       PROVE  file[1].session = sid /\ L[1].session = sid
  <2>1. 1 \in 1..Len(o) /\ SameContent(o[1], L[1]) /\ DOMAIN L = 1..Len(L) /\ 1 \in DOMAIN L
    BY <1>4, <1>10, SeqDomain DEF Follows, IsRecord
  <2>. QED BY <1>8, <1>10, <2>1 DEF SameContent, IsRecord
<1>11. Other[1].session = "s2"
  <2>1. 1 \in DOMAIN Other
    <3>1. DOMAIN Other = 1..Len(Other) /\ Len(Other) \in Nat /\ Other # <<>> /\ IsSeq(Other)
      BY <1>9, SeqDomain DEF IsRecord
    <3>. QED BY <3>1 DEF IsSeq
  <2>. QED BY <1>9, <2>1 DEF IsRecord
<1>12. /\ Follows(o, Original) /\ Original \in {recorded, Other}
       /\ \E sid : IsRecord(Original, sid)
  <2>1. CASE Follows(o, recorded)
    BY <1>9, <1>10, <1>11, <2>1 DEF Original
  <2>2. CASE Follows(o, Other)
    BY <1>9, <1>10, <1>11, <2>2 DEF Original
  <2>. QED BY <1>7, <2>1, <2>2
<1>13. \E a \in DOMAIN file : Of(file, "SESSION_START") = {a} /\ file[a] = o[1]
  <2>1. PICK a \in DOMAIN file : Of(file, "SESSION_START") = {a}
    BY <1>1, <1>2, OneStart DEF Completeness
  <2>2. o[1].type = "SESSION_START"
    BY <1>1 DEF Completeness
  <2>3. PICK i \in DOMAIN file : o[1] = file[i]
    BY <1>5, <1>8
  <2>4. i = a
    BY <2>1, <2>2, <2>3 DEF Of
  <2>. QED BY <2>1, <2>3, <2>4
<1>. QED BY ONLY <1>3, <1>4, <1>5, <1>6, <1>12, <1>13

\* Signatures aside, what follows a log is its first part.
LEMMA FollowsIsPrefix ==
    ASSUME NEW o, IsSeq(o), NEW L, NEW sid, IsRecord(L, sid), Follows(o, L),
           \A k \in DOMAIN o : IsEnvelope(o[k])
    PROVE  /\ IsPrefixOf(Content(o), Content(L))
           /\ Len(o) = Len(L) => Content(o) = Content(L)
<1>. PICK n, m : n = Len(o) /\ m = Len(L)
  OBVIOUS
<1>1. /\ n \in Nat /\ m \in Nat /\ n \in 1..m /\ DOMAIN o = 1..n /\ DOMAIN L = 1..m
      /\ \A i \in 1..n : SameContent(o[i], L[i])
      /\ \A i \in 1..m : IsEnvelope(L[i])
  BY SeqDomain DEF IsRecord, Follows
<1>. PICK a, b : a = Content(o) /\ b = Content(L)
  OBVIOUS
<1>2. /\ a = [i \in 1..n |-> [o[i] EXCEPT !.sig = NoSig]]
      /\ b = [i \in 1..m |-> [L[i] EXCEPT !.sig = NoSig]]
  BY <1>1 DEF Content
<1>3. ASSUME NEW e, NEW f, IsEnvelope(e), IsEnvelope(f), SameContent(e, f)
      PROVE  [e EXCEPT !.sig = NoSig] = [f EXCEPT !.sig = NoSig]
  <2>1. [e EXCEPT !.sig = NoSig] = [seq |-> e.seq, type |-> e.type, session |-> e.session,
            payload |-> e.payload, prev |-> e.prev, hash |-> e.hash, sig |-> NoSig]
    BY <1>3 DEF IsEnvelope
  <2>2. [f EXCEPT !.sig = NoSig] = [seq |-> f.seq, type |-> f.type, session |-> f.session,
            payload |-> f.payload, prev |-> f.prev, hash |-> f.hash, sig |-> NoSig]
    BY <1>3 DEF IsEnvelope
  <2>. QED BY <1>3, <2>1, <2>2 DEF SameContent
<1>4. ASSUME NEW i \in 1..n PROVE a[i] = b[i]
  <2>1. i \in 1..m /\ a[i] = [o[i] EXCEPT !.sig = NoSig] /\ b[i] = [L[i] EXCEPT !.sig = NoSig]
    BY <1>1, <1>2
  <2>2. IsEnvelope(o[i]) /\ IsEnvelope(L[i]) /\ SameContent(o[i], L[i])
    BY <1>1, <2>1
  <2>. QED BY <1>3, <2>1, <2>2
<1>5. /\ a = [i \in 1..n |-> a[i]] /\ IsSeq(a) /\ Len(a) = n
      /\ b = [i \in 1..m |-> b[i]] /\ IsSeq(b) /\ Len(b) = m
  BY <1>1, <1>2, FunctionIsSequence
<1>. PICK p : p = SubSeq(b, 1, n)
  OBVIOUS
<1>6. IsSeq(p) /\ Len(p) = n /\ \A i \in 1..n : p[i] = b[i]
  BY <1>1, <1>5, FirstPart
<1>7. p = [i \in 1..n |-> p[i]]
  BY <1>6 DEF IsSeq
<1>8. a = p
  <2>1. \A i \in 1..n : i \in 1..m
    BY <1>1
  <2>2. \A i \in 1..n : a[i] = p[i]
    BY ONLY <1>4, <1>6, <2>1
  <2>. QED BY ONLY <1>5, <1>7, <2>2
<1>9. n = m => a = b
  BY <1>4, <1>5
<1>10. n <= m
  BY <1>1
<1>. QED BY <1>5, <1>8, <1>9, <1>10 DEF IsPrefixOf

\* A file that passes with a pinned key is all of a log that Archeion sealed.
LEMMA PinnedIsWhole ==
    ASSUME LogFileInv, NEW requireSeal, Good(file, ServerKey, requireSeal)
    PROVE  WholeAndSealed
<1>. PICK o, L : o = OrderBySeq(file) /\ L = Original
  OBVIOUS
<1>. PICK n : n = Len(o)
  OBVIOUS
<1>1. /\ IsSeq(o) /\ n \in Nat \ {0} /\ DOMAIN o = 1..n
      /\ \A k \in DOMAIN o : IsEnvelope(o[k])
      /\ Follows(o, L) /\ L \in {recorded, Other}
      /\ \E sid : IsRecord(L, sid)
  BY GoodFollows
<1>2. o[n].type = "CHAIN_SEAL"
  <2>1. SealSignature(o, ServerKey, requireSeal) /\ ServerKey # NoPin
    BY LogFileAssumption DEF Good, NoPin
  <2>2. Of(o, "CHAIN_SEAL") = {n}
    BY <2>1 DEF SealSignature, SealIsOptional
  <2>. QED BY <2>2 DEF Of
<1>3. n \in DOMAIN L /\ L[n].type = "CHAIN_SEAL" /\ n = Len(L) /\ L = recorded
  <2>1. n \in 1..Len(L) /\ SameContent(o[n], L[n]) /\ DOMAIN L = 1..Len(L)
    BY <1>1, SeqDomain DEF Follows, IsRecord
  <2>2. L[n].type = "CHAIN_SEAL" /\ n \in DOMAIN L
    BY <1>2, <2>1 DEF SameContent
  <2>. QED BY <1>1, <2>2, OtherIsRecord DEF IsRecord
<1>4. Content(o) = Content(L)
  BY <1>1, <1>3, FollowsIsPrefix
<1>. QED BY <1>3, <1>4 DEF WholeAndSealed, Good

LEMMA LastEntry ==
    ASSUME NEW s, IsSeq(s), s # <<>>
    PROVE  /\ DOMAIN s = 1..Len(s) /\ Len(s) \in Nat \ {0}
           /\ 1 \in DOMAIN s /\ Len(s) \in DOMAIN s
<1>1. DOMAIN s = 1..Len(s) /\ Len(s) \in Nat
  BY SeqDomain
<1>2. Len(s) # 0
  BY <1>1 DEF IsSeq
<1>. QED BY <1>1, <1>2

\* What the timestamp check says of a SESSION_START with the content of a recorded one.
LEMMA StampOfRecord ==
    ASSUME NEW e, NEW l, IsEnvelope(e), IsEnvelope(l), SameContent(e, l), TokenIsOwn(l),
           e.payload.token # NoToken
    PROVE  e.payload.token = <<ComputeEventHash(WithoutToken(e), DeclaredBy(e))>>
<1>. PICK p, q : p = e.payload /\ q = [p EXCEPT !.token = NoToken]
  OBVIOUS
<1>1. /\ e.seq = l.seq /\ e.type = l.type /\ e.session = l.session /\ e.prev = l.prev
      /\ e.payload = l.payload
  BY DEF SameContent
<1>2. WithoutToken(e) = [e EXCEPT !.payload = q] /\ WithoutToken(l) = [l EXCEPT !.payload = q]
  BY <1>1 DEF WithoutToken
<1>3. Digest([e EXCEPT !.payload = q]) = <<e.seq, e.type, e.session, q, e.prev>>
  BY DEF Digest, IsEnvelope
<1>4. Digest([l EXCEPT !.payload = q]) = <<l.seq, l.type, l.session, q, l.prev>>
  BY DEF Digest, IsEnvelope
<1>5. Digest(WithoutToken(e)) = Digest(WithoutToken(l))
  BY <1>1, <1>2, <1>3, <1>4
<1>6. DeclaredBy(e) = DeclaredBy(l)
  BY <1>1 DEF DeclaredBy
<1>7. ComputeEventHash(WithoutToken(e), DeclaredBy(e))
        = ComputeEventHash(WithoutToken(l), DeclaredBy(l))
  BY ONLY <1>5, <1>6 DEF ComputeEventHash
<1>. QED BY <1>1, <1>7 DEF TokenIsOwn

\* A file passes only if, put in order, it is what was recorded of its session up to
\* some event at or after the first SESSION_END, and its timestamp check says whether
\* the session was anchored: for all sessions, faults and canonicalizations
\* (sasana/verifier.py, checks 1 to 6).
THEOREM PassedIsRecorded == LogFileSpec => []PassedMeansRecorded
<1>1. LogFileInv => PassedMeansRecorded
  <2>. SUFFICES ASSUME LogFileInv, Intact(Unpinned)
                PROVE  /\ IsPrefixOf(Content(OrderBySeq(file)), Content(Original))
                       /\ Of(file, "SESSION_END") # {}
                       /\ Unpinned.timestamp = IF Original[1].payload.token = NoToken
                                               THEN "SKIPPED" ELSE "IMPRINT_MATCH"
    BY DEF PassedMeansRecorded
  <2>. PICK L : L = Original
    OBVIOUS
  <2>. PICK o : o = OrderBySeq(file)
    OBVIOUS
  <2>1. Good(file, NoPin, FALSE)
    BY PassingIsGood DEF Unpinned
  <2>2. /\ IsSeq(o) /\ Len(o) \in Nat \ {0} /\ DOMAIN o = 1..Len(o)
        /\ \A k \in DOMAIN o : IsEnvelope(o[k])
        /\ Follows(o, L)
        /\ \E sid : IsRecord(L, sid)
        /\ \E a \in DOMAIN file : Of(file, "SESSION_START") = {a} /\ file[a] = o[1]
        /\ \A k \in DOMAIN o : \E i \in DOMAIN file : o[k] = file[i]
        /\ \A i \in DOMAIN file : \E k \in DOMAIN o : o[k] = file[i]
    <3>1. PICK requireSeal : Good(file, NoPin, requireSeal)
      BY <2>1, Zenon
    <3>2. LogFileInv /\ L = Original /\ o = OrderBySeq(file)
      OBVIOUS
    <3>. QED BY ONLY <3>1, <3>2, GoodFollows
  <2>3. PICK sid : IsRecord(L, sid)
    BY <2>2
  <2>4. IsPrefixOf(Content(o), Content(L))
    BY <2>2, <2>3, FollowsIsPrefix
  <2>5. /\ DOMAIN L = 1..Len(L) /\ Len(L) \in Nat \ {0} /\ Len(o) \in 1..Len(L)
        /\ \A i \in DOMAIN o : i \in DOMAIN L /\ SameContent(o[i], L[i])
    BY <2>2, <2>3, LastEntry DEF Follows, IsRecord
  <2>6. Of(file, "SESSION_END") # {}
    <3>1. PICK i \in DOMAIN file : file[i].type \in {"SESSION_END", "CHAIN_SEAL"}
      BY <2>1 DEF Good, Completeness, Of
    <3>2. CASE file[i].type = "SESSION_END"
      BY <3>1, <3>2 DEF Of
    <3>3. CASE file[i].type = "CHAIN_SEAL"
      <4>1. PICK k \in DOMAIN o : o[k] = file[i]
        BY <2>2, <3>1
      <4>2. k \in DOMAIN L /\ L[k].type = "CHAIN_SEAL"
        BY <2>5, <3>3, <4>1 DEF SameContent
      <4>3. k = Len(L) /\ Of(L, "SESSION_END") # {}
        BY <2>3, <4>2 DEF IsRecord
      <4>4. PICK j \in DOMAIN L : L[j].type = "SESSION_END"
        BY <4>3 DEF Of
      <4>5. j \in DOMAIN o /\ o[j].type = "SESSION_END"
        BY <2>2, <2>5, <4>1, <4>3, <4>4 DEF SameContent
      <4>6. PICK m \in DOMAIN file : o[j] = file[m]
        BY <2>2, <4>5
      <4>. QED BY <4>5, <4>6 DEF Of
    <3>. QED BY <3>1, <3>2, <3>3
  <2>7. Unpinned.timestamp = IF L[1].payload.token = NoToken
                             THEN "SKIPPED" ELSE "IMPRINT_MATCH"
    <3>1. PICK a \in DOMAIN file : Of(file, "SESSION_START") = {a} /\ file[a] = o[1]
      BY <2>2
    <3>2. a \in Nat
      BY SeqDomain DEF LogFileInv
    <3>3. FirstStart(file) = a /\ FileStart(file) = a
      BY <3>1, <3>2, FirstStartIs
    <3>. PICK e, l, c : e = o[1] /\ l = L[1] /\ c = SelectCanonicalization(file)
      OBVIOUS
    <3>4. IsEnvelope(e) /\ IsEnvelope(l) /\ SameContent(e, l) /\ TokenIsOwn(l)
      BY <2>2, <2>3, <2>5 DEF IsRecord
    <3>5. c = DeclaredBy(e)
      BY <3>1, <3>3 DEF SelectCanonicalization, DeclaredBy
    <3>6. Unpinned.timestamp = Rfc3161Timestamp(file, c)
      BY <2>1, VerdictForm DEF Unpinned
    <3>7. Rfc3161Timestamp(file, c) =
             IF e.payload.token = NoToken THEN "SKIPPED"
             ELSE IF e.payload.token = <<ComputeEventHash(WithoutToken(e), c)>>
                  THEN "IMPRINT_MATCH" ELSE "FAIL"
      BY <3>1, <3>3 DEF Rfc3161Timestamp
    <3>8. e.payload = l.payload
      BY <3>4 DEF SameContent
    <3>9. e.payload.token # NoToken =>
             e.payload.token = <<ComputeEventHash(WithoutToken(e), c)>>
      BY <3>4, <3>5, StampOfRecord
    <3>. QED BY ONLY <3>6, <3>7, <3>8, <3>9, l = L[1]
  <2>. QED BY <2>4, <2>6, <2>7
<1>. QED BY <1>1, LogFileInvHolds, PTL

-----------------------------------------------------------------------------
(* What the commands say of a file, in terms of what passes the checks.    *)

LEMMA VerifyIsGood ==
    ASSUME NEW pin, NEW requireSeal
    PROVE  /\ \A strict \in BOOLEAN : VerifyCommand(file, pin, requireSeal, strict) \in {0, 2} =>
                 Good(file, pin, requireSeal)
           /\ VerifyCommand(file, pin, requireSeal, FALSE) \in {0, 2}
                <=> Good(file, pin, requireSeal)
           /\ pin = NoPin => VerifyCommand(file, pin, requireSeal, TRUE) = 3
<1>. PICK v : v = PythonVerify(file, pin, requireSeal)
  OBVIOUS
<1>1. /\ \A strict \in BOOLEAN :
            VerifyExitCode(v, strict) \in {0, 2} => Good(file, pin, requireSeal)
      /\ VerifyExitCode(v, FALSE) \in {0, 2} <=> Good(file, pin, requireSeal)
  BY PassingIsGood
<1>2. ASSUME NEW strict \in BOOLEAN, VerifyCommand(file, pin, requireSeal, strict) \in {0, 2}
      PROVE  Good(file, pin, requireSeal)
  <2>1. ~(strict /\ pin = NoPin)
    BY <1>2 DEF VerifyCommand
  <2>2. VerifyExitCode(v, strict) \in {0, 2}
    BY <1>2, <2>1 DEF VerifyCommand
  <2>. QED BY <1>1, <2>2
<1>3. VerifyCommand(file, pin, requireSeal, FALSE) = VerifyExitCode(v, FALSE)
  BY DEF VerifyCommand
<1>4. pin = NoPin => VerifyCommand(file, pin, requireSeal, TRUE) = 3
  BY DEF VerifyCommand
<1>. QED BY <1>1, <1>2, <1>3, <1>4

\* What a report that put the events in order finds.
LEMMA ReportIsGood ==
    ASSUME LogFileInv, Readable(file), NEW pin
    PROVE  /\ Intact(VerifySession(file, pin)) <=> Good(file, pin, FALSE)
           /\ VerifySession(file, pin).class # "NO_EVIDENCE" <=> Good(file, pin, FALSE)
<1>. PICK o : o = OrderBySeq(file)
  OBVIOUS
<1>1. ASSUME NEW requireSeal
      PROVE  /\ Intact(PythonVerify(o, pin, requireSeal)) <=> Good(file, pin, requireSeal)
             /\ PythonVerify(o, pin, requireSeal).class # "NO_EVIDENCE"
                  <=> Good(file, pin, requireSeal)
  <2>1. HasNumbers(file)
    BY ReadableFile
  <2>2. Good(o, pin, requireSeal) <=> Good(file, pin, requireSeal)
    BY <2>1, SortedIsGood
  <2>. PICK v : v = PythonVerify(o, pin, requireSeal)
    OBVIOUS
  <2>3. /\ Intact(v) <=> Good(o, pin, requireSeal)
        /\ v.class # "NO_EVIDENCE" <=> Good(o, pin, requireSeal)
    BY PassingIsGood
  <2>. QED BY <2>2, <2>3
<1>2. VerifySession(file, pin) = PythonVerify(o, pin, FALSE)
  BY DEF VerifySession
<1>. QED BY ONLY <1>1, <1>2, Zenon

LEMMA PackIsGood ==
    ASSUME LogFileInv, NEW standard \in Standards, NEW pin
    PROVE  /\ PackCommand(standard, file, pin) = 0 => Good(file, pin, FALSE)
           /\ standard # "eu_ai_act" /\ Good(file, pin, FALSE) =>
                 PackCommand(standard, file, pin) = 0
<1>. DEFINE good == Good(file, pin, FALSE)
<1>1. PackCommand(standard, file, pin) = 0
        <=> Readable(file) /\ StatusOk(standard, file, pin)
  BY DEF PackCommand
<1>2. good => Readable(file)
  BY DEF Good
<1>3. ASSUME Readable(file)
      PROVE  /\ StatusOk(standard, file, pin) => good
             /\ standard # "eu_ai_act" /\ good => StatusOk(standard, file, pin)
  <2>1. /\ Intact(VerifySession(file, pin)) <=> good
        /\ VerifySession(file, pin).class # "NO_EVIDENCE" <=> good
    BY <1>3, ReportIsGood
  <2>. HIDE DEF good
  <2>2. CASE standard = "eu_ai_act"
    BY <2>1, <2>2 DEF StatusOk, EuAiActCompliant
  <2>3. CASE standard = "soc2"
    BY <2>1, <2>3 DEF StatusOk, Soc2Passes
  <2>4. CASE standard = "hipaa"
    BY <2>1, <2>4 DEF StatusOk, HipaaCompliant
  <2>5. CASE standard = "siem"
    BY <2>1, <2>5 DEF StatusOk, SiemExported
  <2>. QED BY <2>2, <2>3, <2>4, <2>5 DEF Standards
<1>. HIDE DEF good
<1>4. /\ PackCommand(standard, file, pin) = 0 => good
      /\ standard # "eu_ai_act" /\ good => PackCommand(standard, file, pin) = 0
  BY ONLY <1>1, <1>2, <1>3
<1>. QED BY ONLY <1>4 DEF good

\* A file whose class says that every event is signed has the signatures of the session.
LEMMA SignedIsPrefix ==
    ASSUME LogFileInv, Unpinned.class = "SIGNED_NON_AUTHORITATIVE_EVIDENCE"
    PROVE  IsPrefixOf(OrderBySeq(file), recorded)
<1>. PICK L : L = Original
  OBVIOUS
<1>. PICK o : o = OrderBySeq(file)
  OBVIOUS
<1>. PICK n : n = Len(o)
  OBVIOUS
<1>1. Good(file, NoPin, FALSE)
  <2>1. Unpinned.class # "NO_EVIDENCE"
    OBVIOUS
  <2>. QED BY <2>1, PassingIsGood DEF Unpinned
<1>2. /\ IsSeq(o) /\ n \in Nat \ {0} /\ DOMAIN o = 1..n
      /\ \A k \in DOMAIN o : IsEnvelope(o[k])
      /\ Follows(o, L) /\ L \in {recorded, Other}
      /\ \E sid : IsRecord(L, sid)
      /\ \E a \in DOMAIN file : Of(file, "SESSION_START") = {a} /\ file[a] = o[1]
      /\ \A k \in DOMAIN o : \E i \in DOMAIN file : o[k] = file[i]
  <2>1. PICK requireSeal : Good(file, NoPin, requireSeal)
    BY <1>1, Zenon
  <2>2. LogFileInv /\ L = Original /\ o = OrderBySeq(file) /\ n = Len(o)
    OBVIOUS
  <2>. QED BY ONLY <2>1, <2>2, GoodFollows
<1>3. PICK sid : IsRecord(L, sid)
  BY <1>2
<1>4. PICK a \in DOMAIN file : Of(file, "SESSION_START") = {a} /\ file[a] = o[1]
  BY <1>2
<1>5. FileStart(file) = a
  <2>1. a \in Nat
    BY SeqDomain DEF LogFileInv
  <2>. QED BY <1>4, <2>1, FirstStartIs
<1>. PICK key : key = o[1].payload.body.pubkey
  OBVIOUS
<1>6. Of(file, "CHAIN_SEAL") = {} /\ SignatureCheck(file, a).all
  BY <1>1, <1>5, VerdictForm DEF Unpinned, EvidenceClass
<1>7. SessionSignatures(file, a).all
  BY <1>4, <1>6 DEF SignatureCheck
<1>8. key # NoKey /\ \A i \in DOMAIN file : file[i].sig = Signature(key, file[i].hash)
  BY <1>4, <1>6, <1>7 DEF SessionSignatures, AllSigned
<1>9. /\ DOMAIN L = 1..Len(L) /\ Len(L) \in Nat /\ n \in 1..Len(L) /\ 1 \in DOMAIN o
      /\ \A i \in DOMAIN o : i \in DOMAIN L /\ SameContent(o[i], L[i])
  BY <1>2, <1>3, LastEntry DEF Follows, IsRecord
<1>10. L[1].payload.body.pubkey = key
  BY <1>9 DEF SameContent
<1>11. L = recorded
  BY <1>2, <1>8, <1>10, OtherIsRecord
<1>12. ASSUME NEW i \in 1..n PROVE o[i] = L[i]
  <2>1. PICK j \in DOMAIN file : o[i] = file[j]
    BY <1>2
  <2>2. o[i].type # "CHAIN_SEAL" /\ o[i].sig = Signature(key, o[i].hash)
    BY <1>6, <1>8, <2>1 DEF Of
  <2>3. SameContent(o[i], L[i]) /\ IsEnvelope(o[i]) /\ i \in DOMAIN L
    BY <1>2, <1>9
  <2>4. L[i].type # "CHAIN_SEAL" /\ L[i].hash = o[i].hash
    BY <2>2, <2>3 DEF SameContent
  <2>5. IsEnvelope(L[i]) /\ L[i].sig = Signature(key, L[i].hash)
    BY <1>3, <1>10, <2>3, <2>4 DEF IsRecord
  <2>6. o[i].sig = L[i].sig
    BY <2>2, <2>4, <2>5
  <2>. QED BY <2>3, <2>5, <2>6 DEF SameContent, IsEnvelope
<1>. PICK p : p = SubSeq(L, 1, n)
  OBVIOUS
<1>13. IsSeq(p) /\ Len(p) = n /\ \A i \in 1..n : p[i] = L[i]
  BY <1>3, <1>9, FirstPart DEF IsRecord
<1>14. o = [i \in 1..n |-> o[i]] /\ p = [i \in 1..n |-> p[i]]
  BY <1>2, <1>13 DEF IsSeq
<1>15. o = p
  <2>1. \A i \in 1..n : o[i] = p[i]
    BY ONLY <1>12, <1>13
  <2>. QED BY ONLY <1>14, <2>1
<1>16. n <= Len(L)
  BY <1>9
<1>. QED BY <1>11, <1>15, <1>16 DEF IsPrefixOf

\* What the commands claim of a file is earned, whatever happened to it: with the pinned
\* key nothing is missing, --strict exits 0 for no other file and never without a pin, a
\* signed class means every signature, and the reports pass what `verify` passes
\* (sasana/verifier.py, sasana_cli.py, sasana/compliance).
THEOREM ClaimsEarned == LogFileSpec => []ClaimsAreEarned
<1>1. LogFileInv => ClaimsAreEarned
  <2>. SUFFICES ASSUME LogFileInv PROVE ClaimsAreEarned
    OBVIOUS
  <2>1. Good(file, ServerKey, FALSE) => WholeAndSealed
    <3>1. \A requireSeal : Good(file, ServerKey, requireSeal) => WholeAndSealed
      BY PinnedIsWhole
    <3>. QED BY ONLY <3>1, Zenon
  <2>. DEFINE good(pin) == Good(file, pin, FALSE)
              exitOf(pin, strict) == VerifyCommand(file, pin, FALSE, strict)
  <2>2. ASSUME NEW pin
        PROVE  /\ \A strict \in BOOLEAN : exitOf(pin, strict) \in {0, 2} => good(pin)
               /\ exitOf(pin, FALSE) \in {0, 2} <=> good(pin)
               /\ pin = NoPin => exitOf(pin, TRUE) = 3
    <3>1. ASSUME NEW requireSeal
          PROVE  /\ \A strict \in BOOLEAN :
                       VerifyCommand(file, pin, requireSeal, strict) \in {0, 2} =>
                          Good(file, pin, requireSeal)
                 /\ VerifyCommand(file, pin, requireSeal, FALSE) \in {0, 2}
                      <=> Good(file, pin, requireSeal)
                 /\ pin = NoPin => VerifyCommand(file, pin, requireSeal, TRUE) = 3
      BY VerifyIsGood
    <3>. QED BY ONLY <3>1, Zenon
  <2>3. ASSUME NEW pin, NEW standard \in Standards
        PROVE  /\ PackCommand(standard, file, pin) = 0 => good(pin)
               /\ standard # "eu_ai_act" /\ good(pin) => PackCommand(standard, file, pin) = 0
    BY PackIsGood
  <2>4. Readable(file) /\ ServerSealed(file, ServerKey) => good(ServerKey)
    BY ReportIsGood DEF ServerSealed
  <2>5. Unpinned.class = "SIGNED_NON_AUTHORITATIVE_EVIDENCE" =>
           IsPrefixOf(OrderBySeq(file), recorded)
    BY SignedIsPrefix
  <2>6. good(ServerKey) => WholeAndSealed
    BY <2>1
  <2>. HIDE DEF good, exitOf
  <2>7. PraisedWithPin => WholeAndSealed
    <3>1. PraisedWithPin <=>
             \/ \E strict \in BOOLEAN : exitOf(ServerKey, strict) \in {0, 2}
             \/ \E standard \in Standards : PackCommand(standard, file, ServerKey) = 0
             \/ Readable(file) /\ ServerSealed(file, ServerKey)
      BY DEF PraisedWithPin, exitOf
    <3>. QED BY ONLY <2>2, <2>3, <2>4, <2>6, <3>1
  <2>8. ASSUME NEW pin \in {NoPin, ServerKey}, VerifyCommand(file, pin, FALSE, TRUE) = 0
        PROVE  WholeAndSealed
    <3>1. exitOf(pin, TRUE) = 0
      BY <2>8 DEF exitOf
    <3>. PICK code : code = exitOf(pin, TRUE)
      BY Zenon
    <3>2. exitOf(pin, TRUE) \in {0, 2} /\ exitOf(pin, TRUE) # 3
      <4>1. code = 0
        BY ONLY <3>1, code = exitOf(pin, TRUE), Zenon
      <4>2. code \in {0, 2} /\ code # 3
        BY ONLY <4>1
      <4>. QED BY ONLY <4>2, code = exitOf(pin, TRUE), Zenon
    <3>3. pin # NoPin
      BY ONLY <2>2, <3>2, Zenon
    <3>4. pin = ServerKey
      BY ONLY <3>3, pin \in {NoPin, ServerKey}
    <3>5. TRUE \in BOOLEAN
      OBVIOUS
    <3>6. good(pin)
      BY ONLY <2>2, <3>2, <3>5, Zenon
    <3>. QED BY ONLY <2>6, <3>4, <3>6
  <2>9. ASSUME NEW standard \in Standards, NEW pin \in {NoPin, ServerKey}
        PROVE  LET passes == PackCommand(standard, file, pin) = 0
                   verified == VerifyCommand(file, pin, FALSE, FALSE) \in {0, 2}
               IN  IF standard = "eu_ai_act" THEN passes => verified ELSE passes <=> verified
    <3>1. VerifyCommand(file, pin, FALSE, FALSE) \in {0, 2} <=> good(pin)
      BY <2>2 DEF exitOf
    <3>. QED BY ONLY <2>3, <3>1, standard \in Standards
  <2>. QED BY ONLY <2>5, <2>7, <2>8, <2>9 DEF ClaimsAreEarned
<1>. QED BY <1>1, LogFileInvHolds, PTL

-----------------------------------------------------------------------------
(* The two verifiers on what has become of a file.                         *)

\* A chain is of one session and of known types, which the Rust verifier does not check:
\* its hashes are those that the session was recorded with.
LEMMA ChainIsOfOneSession ==
    ASSUME LogFileInv, file # <<>>, Readable(file), Numbered(file),
           NEW c \in Canonicalizations, HashChain(file, c)
    PROVE  /\ Structural(file)
           /\ \A i, j \in DOMAIN file : file[i].session = file[j].session
<1>1. Follows(file, recorded) \/ Follows(file, Other)
  BY ChainIsRecorded DEF LogFileInv
<1>2. PICK L, sid : IsRecord(L, sid) /\ Follows(file, L)
  BY <1>1, OtherIsRecord DEF LogFileInv
<1>3. DOMAIN file = 1..Len(file) /\ DOMAIN L = 1..Len(L) /\ Len(L) \in Nat
  BY <1>2, SeqDomain DEF LogFileInv, IsRecord
<1>4. ASSUME NEW i \in DOMAIN file
      PROVE  file[i].type \in EventTypes /\ file[i].session = sid
  <2>1. i \in DOMAIN L /\ SameContent(file[i], L[i])
    BY <1>2, <1>3 DEF Follows
  <2>. QED BY <1>2, <2>1 DEF IsRecord, SameContent
<1>. QED BY <1>4 DEF Structural

\* What each verifier says of a file whose order it need not touch.
LEMMA VerdictsOf ==
    ASSUME NEW s, OrderBySeq(s) = s, s # <<>>, Readable(s), NEW pin, NEW requireSeal,
           ~(Numbered(s) /\ HashChain(s, SelectCanonicalization(s)))
    PROVE  Same(PythonVerify(s, pin, requireSeal), RustVerify(s, pin, requireSeal))
<1>. DEFINE canon == SelectCanonicalization(s)
<1>. PICK v, w : v = PythonVerify(s, pin, requireSeal) /\ w = RustVerify(s, pin, requireSeal)
  OBVIOUS
<1>1. ASSUME NEW status, NEW class, NEW root, NEW timestamp
      PROVE  /\ Verdict(status, class, root, timestamp).status = status
             /\ Verdict(status, class, root, timestamp).class = class
  BY DEF Verdict
<1>2. /\ canon = Unsupported => v = NoVerdict /\ w = NoVerdict
      /\ canon # Unsupported =>
            \E root, other, timestamp :
               /\ v = Verdict("COMPROMISED", "NO_EVIDENCE", root, timestamp)
               /\ w = Verdict("COMPROMISED", "NO_EVIDENCE", other, "SKIPPED")
  BY DEF PythonVerify, RustVerify, Readable, Sequence
<1>. QED BY ONLY <1>1, <1>2, v = PythonVerify(s, pin, requireSeal),
                 w = RustVerify(s, pin, requireSeal) DEF Same

\* The Rust and the Python verifier give the same verdict, pinned and unpinned, on every
\* file with readable lines in order, one SESSION_START and nothing after its end,
\* however damaged otherwise (sasana-rs/src/main.rs against sasana/verifier.py).
THEOREM VerifiersAlwaysAgree == LogFileSpec => []VerifiersAgree
<1>1. LogFileInv => VerifiersAgree
  <2>. SUFFICES ASSUME LogFileInv,
                       \/ ~Readable(file) \/ file = <<>>
                       \/ InOrder /\ EndsLast /\ Cardinality(Of(file, "SESSION_START")) <= 1,
                       NEW pin, NEW require
                PROVE  Same(PythonVerify(file, pin, require), RustVerify(file, pin, require))
    BY DEF VerifiersAgree, Readable
  <2>1. CASE ~Readable(file) \/ file = <<>>
    <3>1. PythonVerify(file, pin, require) = NoVerdict
      BY <2>1 DEF PythonVerify, Readable
    <3>2. RustVerify(file, pin, require) = NoVerdict
      BY <2>1 DEF RustVerify, Readable
    <3>. QED BY ONLY <3>1, <3>2 DEF Same
  <2>2. CASE /\ Readable(file) /\ file # <<>> /\ InOrder /\ EndsLast
             /\ Cardinality(Of(file, "SESSION_START")) <= 1
    <3>1. HasNumbers(file) /\ Ascending(file)
      BY <2>2, ReadableFile DEF InOrder, Ascending
    <3>2. OrderBySeq(file) = file
      BY <3>1, AscendingIsSorted
    <3>3. CASE ~(Numbered(file) /\ HashChain(file, SelectCanonicalization(file)))
      BY <2>2, <3>2, <3>3, VerdictsOf
    <3>4. CASE Numbered(file) /\ HashChain(file, SelectCanonicalization(file))
      <4>1. CASE SelectCanonicalization(file) = Unsupported
        <5>1. PythonVerify(file, pin, require) = NoVerdict
          BY <2>2, <4>1 DEF PythonVerify, Readable
        <5>2. RustVerify(file, pin, require) = NoVerdict
          BY <2>2, <4>1 DEF RustVerify, Readable
        <5>. QED BY ONLY <5>1, <5>2 DEF Same
      <4>2. CASE SelectCanonicalization(file) # Unsupported
        <5>1. SelectCanonicalization(file) \in Canonicalizations
          BY <4>2 DEF SelectCanonicalization, Canonicalizations
        <5>2. /\ Structural(file)
              /\ \A i, j \in DOMAIN file : file[i].session = file[j].session
          BY <2>2, <3>4, <5>1, ChainIsOfOneSession
        <5>3. OneSession(file)
          BY <2>2, <5>2 DEF OneSession, EndsLast
        <5>4. \A i \in DOMAIN file : IsEvent(file[i])
          BY <2>2 DEF Readable
        <5>5. /\ PythonVerify(file, pin, require).status = RustVerify(file, pin, require).status
              /\ PythonVerify(file, pin, require).class = RustVerify(file, pin, require).class
          BY <2>2, <3>1, <5>3, <5>4, VerifiersAgreeInOrder
        <5>. QED BY ONLY <5>5 DEF Same
      <4>. QED BY <4>1, <4>2
    <3>. QED BY <3>3, <3>4
  <2>. QED BY <2>1, <2>2
<1>. QED BY <1>1, LogFileInvHolds, PTL
=============================================================================
