------------------------------ MODULE Sealing -------------------------------
(***************************************************************************)
(* Sealing an exported session: several runs of `sasana seal`              *)
(* (sasana_cli.py), the Archeion server with its persistent key            *)
(* (archeion/server.py, archeion/keys.py), and the files between them.     *)
(* Requests and responses get lost or time out, clients are killed, the    *)
(* server crashes at any point of its start and is restarted.              *)
(***************************************************************************)
EXTENDS Archeion

CONSTANTS
    Clients,     \* processes that run `sasana seal` on the session file
    Logs,        \* exported sessions the file may hold at first
    ServerKeys,  \* keys the server may generate
    EnvKey,      \* ARCHEION_PRIVATE_KEY, or NoKey when it is not set
    MaxRuns,     \* bound: commands per client
    MaxCrashes   \* bound: crashes of the server

\* The session file, and the one named with --out.
Paths == {"session.jsonl", "sealed.jsonl"}
SessionFile == "session.jsonl"

\* The contents of a key file that holds no key.
NoFile == "no-file"
EmptyFile == "empty-file"

ASSUME SealingAssumption ==
    /\ NoKey \notin ServerKeys /\ NoFile \notin ServerKeys /\ EmptyFile \notin ServerKeys
    /\ MaxRuns \in Nat /\ MaxCrashes \in Nat

\* What a ledger exports: whole lines with numbers, and the SDK writes no seal.
ASSUME LogsAssumption ==
    \A l \in Logs :
       /\ l \in Seq({l[i] : i \in DOMAIN l})
       /\ \A i \in DOMAIN l : IsEvent(l[i]) /\ l[i].seq \in Nat /\ l[i].type # "CHAIN_SEAL"

VARIABLES
    log,        \* the session as it was exported
    files,      \* the lines of each file
    pc,         \* per client: where the command is
    out,        \* per client: the file it is to write
    body,       \* per client: the request, the bytes it read
    reply,      \* per client: the response on its way or received
    exit,       \* per client: how its command ended
    runs,       \* per client: commands started
    server,     \* where the server process is
    serverKey,  \* the key the process loaded
    keyFile,    \* the server's key file
    generated,  \* keys ever generated
    crashes     \* crashes of the server so far

client == <<pc, out, body, reply, exit, runs>>
archeion == <<server, serverKey, keyFile, generated, crashes>>
vars == <<log, files, client, archeion>>

Init ==
    /\ log \in Logs
    /\ files = [p \in Paths |-> IF p = SessionFile THEN log ELSE <<>>]
    /\ pc = [c \in Clients |-> "idle"]
    /\ out = [c \in Clients |-> SessionFile]
    /\ body = [c \in Clients |-> <<>>]
    /\ reply = [c \in Clients |-> Refused(0)]
    /\ exit = [c \in Clients |-> "none"]
    /\ runs = [c \in Clients |-> 0]
    /\ server = "down" /\ serverKey = NoKey
    /\ keyFile = NoFile
    /\ generated = {} /\ crashes = 0

-----------------------------------------------------------------------------
(* The server's process: load_or_generate at import, then requests.        *)

\* Mutant: the container is not restarted.
StartOnce(key) ==
    /\ crashes = 0
    /\ server' = "up" /\ serverKey' = key
    /\ UNCHANGED <<keyFile, generated>>

\* A key in the environment comes first; then an existing key file, which has to
\* hold a key or the import raises and the process ends.
StartWithKey(key) ==
    /\ server' = "up" /\ serverKey' = key
    /\ UNCHANGED <<keyFile, generated>>

\* Mutant: an existing key file is not noticed.
KeyFileIgnored == FALSE

KeyFileExists == keyFile # NoFile

StartServer ==
    /\ server = "down"
    /\ \/ EnvKey # NoKey /\ StartWithKey(EnvKey)
       \/ EnvKey = NoKey /\ KeyFileExists /\ keyFile \in ServerKeys /\ StartWithKey(keyFile)
       \/ /\ EnvKey = NoKey /\ ~KeyFileExists
          /\ server' = "generate"
          /\ UNCHANGED <<serverKey, keyFile, generated>>
    /\ UNCHANGED <<log, files, client, crashes>>

\* Ed25519PrivateKey.generate, then write_text, which creates the file ...
CreateKeyFile ==
    /\ server = "generate"
    /\ \E key \in ServerKeys \ generated :
          serverKey' = key /\ generated' = generated \cup {key}
    /\ keyFile' = EmptyFile
    /\ server' = "write"
    /\ UNCHANGED <<log, files, client, crashes>>

\* ... and then fills it.
WriteKey ==
    /\ server = "write"
    /\ keyFile' = serverKey
    /\ server' = "up"
    /\ UNCHANGED <<log, files, client, serverKey, generated, crashes>>

CrashServer ==
    /\ server # "down"
    /\ crashes < MaxCrashes
    /\ crashes' = crashes + 1
    /\ server' = "down" /\ serverKey' = NoKey
    /\ UNCHANGED <<log, files, client, keyFile, generated>>

-----------------------------------------------------------------------------
(* `sasana seal`                                                           *)

Goto(c, label) == pc' = [pc EXCEPT ![c] = label]

\* The command ends; what it held in memory is gone.
Exit(c, how) ==
    /\ Goto(c, "idle")
    /\ exit' = [exit EXCEPT ![c] = how]
    /\ body' = [body EXCEPT ![c] = <<>>]
    /\ reply' = [reply EXCEPT ![c] = Refused(0)]
    /\ UNCHANGED <<out, runs>>

\* Read the session file, without --out or with it.
ReadSession(c) ==
    /\ pc[c] = "idle"
    /\ runs[c] < MaxRuns
    /\ runs' = [runs EXCEPT ![c] = @ + 1]
    /\ \E p \in Paths : out' = [out EXCEPT ![c] = p]
    /\ body' = [body EXCEPT ![c] = files[SessionFile]]
    /\ exit' = [exit EXCEPT ![c] = "none"]
    /\ Goto(c, "post")
    /\ UNCHANGED <<log, files, reply, archeion>>

\* The server handles the request; its answer is on the way.
Answer(c) ==
    /\ pc[c] = "post"
    /\ server = "up"
    /\ reply' = [reply EXCEPT ![c] = SealResponse(body[c], serverKey)]
    /\ Goto(c, "reply")
    /\ UNCHANGED <<log, files, out, body, exit, runs, archeion>>

\* URLError: nobody listens.
Unreachable(c) ==
    /\ pc[c] = "post"
    /\ server # "up"
    /\ Exit(c, "unreachable")
    /\ UNCHANGED <<log, files, archeion>>

\* No answer within 30 s, or the connection breaks: whether the server handled the
\* request or not, the command ends with a traceback.
NoAnswer(c) ==
    /\ pc[c] \in {"post", "reply"}
    /\ Exit(c, "traceback")
    /\ UNCHANGED <<log, files, archeion>>

\* HTTPError: any code but 200.
Rejected(c) ==
    /\ pc[c] = "reply"
    /\ reply[c].code # 200
    /\ Exit(c, "rejected")
    /\ UNCHANGED <<log, files, archeion>>

\* open(out_path, "wb") empties the file ...
OpenOut(c) ==
    /\ pc[c] = "reply"
    /\ reply[c].code = 200
    /\ files' = [files EXCEPT ![out[c]] = <<>>]
    /\ Goto(c, "write")
    /\ UNCHANGED <<log, out, body, reply, exit, runs, archeion>>

\* ... and write fills it.
WriteOut(c) ==
    /\ pc[c] = "write"
    /\ files' = [files EXCEPT ![out[c]] = reply[c].body]
    /\ Exit(c, "sealed")
    /\ UNCHANGED <<log, archeion>>

\* What a write that is cut short leaves: some lines, the next one torn or not.
Partial(lines) ==
    {SubSeq(lines, 1, n) : n \in 0..(Len(lines) - 1)}
      \cup {Append(SubSeq(lines, 1, n), Torn) : n \in 0..(Len(lines) - 1)}

\* The command is killed, or the disk is full.
Killed(c) ==
    /\ pc[c] # "idle"
    /\ IF pc[c] = "write"
       THEN \E lines \in Partial(reply[c].body) : files' = [files EXCEPT ![out[c]] = lines]
       ELSE UNCHANGED files
    /\ Exit(c, "killed")
    /\ UNCHANGED <<log, archeion>>

Command(c) ==
    \/ Answer(c) \/ Unreachable(c) \/ NoAnswer(c) \/ Rejected(c)
    \/ OpenOut(c) \/ WriteOut(c)

Starting == StartServer \/ CreateKeyFile \/ WriteKey

Next ==
    \/ Starting \/ CrashServer
    \/ \E c \in Clients : ReadSession(c) \/ Command(c) \/ Killed(c)

Spec == Init /\ [][Next]_vars

\* The container is restarted (restart: unless-stopped) and its start proceeds; a
\* running command gets an answer, an error, or its 30 s timeout.
Fairness == WF_vars(Starting) /\ \A c \in Clients : WF_vars(Command(c))
FairSpec == Spec /\ Fairness

-----------------------------------------------------------------------------
(* Properties                                                              *)

Seals(lines) == IF Readable(lines) THEN Of(lines, "CHAIN_SEAL") ELSE {}

\* However commands on one file overlap, fail and are run again, no file ever
\* holds two seals (the server's 409, and the seal being built from what was read).
SealedAtMostOnce == \A p \in Paths : Cardinality(Seals(files[p])) <= 1

\* A file that verifies holds the exported session, with or without a seal, as far as
\* a SESSION_END at least: an overwrite cut short, in place or not, and read at any
\* moment by anyone, fails verification or has lost no more than what followed an end.
WholeOrDetected ==
    \A p \in Paths :
       LET v == PythonVerify(files[p], NoPin, FALSE)
           kept == OrderBySeq(files[p])
           session == OrderBySeq(log)
       IN  v.status \in {"INTACT", "PARTIAL"} =>
              \E n \in DOMAIN session \cap DOMAIN kept :
                 /\ SubSeq(kept, 1, n) = SubSeq(session, 1, n)
                 /\ Of(kept, "CHAIN_SEAL") = (n + 1)..Len(kept)
                 /\ \E i \in 1..n : session[i].type = "SESSION_END"

\* A command that exits 0 leaves a file that both verifiers find AUTHORITATIVE
\* when the key in the server's key file (or environment) is pinned.
SealedMeansAuthoritative ==
    [][\A c \in Clients : pc[c] = "write" /\ exit'[c] = "sealed" =>
          LET pin == IF EnvKey # NoKey THEN EnvKey ELSE keyFile
              lines == files'[out[c]]
          IN  /\ PythonVerify(lines, pin, TRUE).class = "AUTHORITATIVE_EVIDENCE"
              /\ RustVerify(lines, pin, TRUE).class = "AUTHORITATIVE_EVIDENCE"]_vars

\* A seal written before a restart still verifies against the key the restarted
\* server publishes at /pubkey.
PinStaysValid ==
    server = "up" =>
       \A p \in Paths : \A i \in Seals(files[p]) :
          files[p][i].payload.body.server_pubkey = serverKey

\* The server is up again and again, whenever it crashes, unless a crash left it a
\* key file without a key.
RestartsUnlessKeyFileEmpty == []<>(server = "up") \/ <>[](keyFile = EmptyFile)

\* "generating and persisting one if absent": the server always comes up again.
ServerComesUp == []<>(server = "up")
=============================================================================
