------------------------------ MODULE Startup ------------------------------
(***************************************************************************)
(* Configuration, start-up and the key file (config.rs, identity.rs,       *)
(* main.rs of crates/mediator).                                            *)
(*                                                                         *)
(* Processes start one after another or at once, to serve or to rotate the *)
(* keys, with one key file; each may stop at any point.  Process p's fresh *)
(* keys are the number p, and so is the file it creates: a directory entry *)
(* (path, or the temporary one next to it) names a file, which holds a     *)
(* whole set of keys or, empty or half written, none.                      *)
(***************************************************************************)
EXTENDS Integers, FiniteSets

CONSTANTS
    MaxStarts,     \* bound: processes ever started
    Environments,  \* the settings processes are started with, by name
    Unset, Bad     \* a variable that is not set; a value that does not parse

Processes == 1 .. MaxStarts
None == 0

VARIABLES
    path, tmp,     \* the file each entry names, or None
    content,       \* the keys in each file, or None if it has no whole set
    redisUp,       \* whether Redis answers
    proc,          \* the processes
    rotations,     \* history: rotations so far
    overlapped     \* history: two processes were creating keys at once

startupVars == <<path, tmp, content, redisUp, proc, rotations, overlapped>>

(***************************************************************************)
(* Config::from_lookup                                                     *)
(***************************************************************************)
Default ==
    [port |-> 8080, metrics_addr |-> None, public_url |-> "http://localhost:8080",
     redis |-> TRUE, max_message_bytes |-> 1024 * 1024, queue_ttl |-> 30 * 24 * 3600,
     queue_max_messages |-> 10000, queue_max_bytes |-> 100 * 1024 * 1024,
     max_recipient_dids |-> 100, recipient_proof |-> TRUE, mediation_ttl |-> 90 * 24 * 3600,
     rate_limit |-> 60, federation |-> TRUE, push_min_interval |-> 60]

Positives == {"max_message_bytes", "queue_ttl", "queue_max_messages", "queue_max_bytes",
              "max_recipient_dids"}

ASSUME StartupAssumption == MaxStarts \in Nat

Lookup(env, key) == IF key \in DOMAIN env THEN env[key] ELSE Unset

Positive(raw, default) ==
    CASE raw = Unset -> default [] raw = 0 -> Bad [] OTHER -> raw

(* push(): the mode, and the services it has credentials for.              *)
Push(env) ==
    LET apns == IF Lookup(env, "apns") = Unset THEN 0 ELSE Lookup(env, "apns")
        fcm == Lookup(env, "fcm") # Unset
        direct == Lookup(env, "push_mode") = "direct"
    IN IF \/ Lookup(env, "push_mode") = Bad
          \/ apns \notin {0, 4}                          \* of its four settings
          \/ direct /\ ~fcm /\ apns = 0
       THEN Bad
       ELSE [direct |-> direct, services |-> (IF fcm THEN {"fcm"} ELSE {})
                                              \union (IF apns = 4 THEN {"apns"} ELSE {})]

Settings(env) ==
    [key \in DOMAIN Default \union {"push"} |->
       IF key = "push" THEN Push(env)
       ELSE IF key \in Positives THEN Positive(Lookup(env, key), Default[key])
       ELSE IF Lookup(env, key) = Unset THEN Default[key] ELSE Lookup(env, key)]

Valid(c) ==
    /\ \A key \in DOMAIN c : c[key] # Bad
    /\ c.queue_max_bytes >= c.max_message_bytes

(***************************************************************************)
(* Processes                                                               *)
(***************************************************************************)
Idle == [at |-> "none", env |-> [name \in {} |-> Unset], command |-> "serve", fd |-> None,
         keys |-> None, epoch |-> 0, tasks |-> {}]

Config(p) == Settings(proc[p].env)

Creating == {"open", "write", "rename"}

(* A process goes on, and the history notes when two create keys at once.  *)
Goto(p, new) ==
    /\ proc' = [proc EXCEPT ![p] = new]
    /\ overlapped' = (overlapped \/ /\ new.at \in Creating
                                    /\ \E q \in Processes \ {p} : proc[q].at \in Creating)

Exit(p) == Goto(p, [Idle EXCEPT !.at = "exited"])

StartupInit ==
    /\ path = None /\ tmp = None
    /\ content = [p \in Processes |-> None]
    /\ redisUp = TRUE
    /\ proc = [p \in Processes |-> Idle]
    /\ rotations = 0
    /\ overlapped = FALSE

Launch(p, command, env) ==
    /\ proc[p].at = "none" /\ \A q \in 1 .. p - 1 : proc[q].at # "none"
    /\ IF Valid(Settings(env))
       THEN Goto(p, [Idle EXCEPT !.at = "check", !.command = command,
                       !.env = IF command = "serve" THEN env ELSE @])
       ELSE Exit(p)
    /\ UNCHANGED <<path, tmp, content, redisUp, rotations>>

(* Mutant: fresh keys are used but not written.                            *)
CheckEphemeral(p) ==
    /\ proc[p].at = "check"
    /\ IF path # None THEN Goto(p, [proc[p] EXCEPT !.at = "read"])
       ELSE Goto(p, [proc[p] EXCEPT !.at = "store", !.keys = p, !.epoch = rotations])
    /\ UNCHANGED <<path, tmp, content, redisUp, rotations>>

(* load_or_create and rotate first ask whether the file is there; fresh    *)
(* keys are generated if they are to be written.                           *)
Check(p) ==
    /\ proc[p].at = "check"
    /\ CASE proc[p].command = "rotate-keys" /\ path = None -> Exit(p)
         [] proc[p].command = "serve" /\ path # None -> Goto(p, [proc[p] EXCEPT !.at = "read"])
         [] OTHER -> Goto(p, [proc[p] EXCEPT !.at = "open", !.keys = p])
    /\ UNCHANGED <<path, tmp, content, redisUp, rotations>>

(* Keys::read, which fails on a file that holds no whole set of keys.      *)
Read(p) ==
    /\ proc[p].at = "read"
    /\ IF content[path] = None THEN Exit(p)
       ELSE Goto(p, [proc[p] EXCEPT !.at = "store", !.keys = content[path], !.epoch = rotations])
    /\ UNCHANGED <<path, tmp, content, redisUp, rotations>>

(* Mutant: the key file itself is opened and written.                      *)
OpenInPlace(p) ==
    /\ proc[p].at = "open"
    /\ LET file == IF path = None THEN p ELSE path
       IN /\ path' = file
          /\ tmp' = file
          /\ content' = [content EXCEPT ![file] = None]
          /\ Goto(p, [proc[p] EXCEPT !.at = "write", !.fd = file])
    /\ UNCHANGED <<redisUp, rotations>>

(* Keys::write: the temporary file is created, or cut to nothing if it is  *)
(* there, then written, then renamed.                                      *)
Open(p) ==
    /\ proc[p].at = "open"
    /\ LET file == IF tmp = None THEN p ELSE tmp
       IN /\ tmp' = file
          /\ content' = [content EXCEPT ![file] = None]
          /\ Goto(p, [proc[p] EXCEPT !.at = "write", !.fd = file])
    /\ UNCHANGED <<path, redisUp, rotations>>

Write(p) ==
    /\ proc[p].at = "write"
    /\ content' = [content EXCEPT ![proc[p].fd] = proc[p].keys]
    /\ Goto(p, [proc[p] EXCEPT !.at = "rename"])
    /\ UNCHANGED <<path, tmp, redisUp, rotations>>

Rename(p) ==
    /\ proc[p].at = "rename"
    /\ IF tmp = None
       THEN Exit(p) /\ UNCHANGED <<path, tmp, rotations>>
       ELSE /\ path' = tmp
            /\ tmp' = None
            /\ IF proc[p].command = "serve"
               THEN /\ Goto(p, [proc[p] EXCEPT !.at = "store", !.epoch = rotations])
                    /\ UNCHANGED rotations
               ELSE Exit(p) /\ rotations' = rotations + 1
    /\ UNCHANGED <<content, redisUp>>

OpenStore(p) ==
    /\ proc[p].at = "store"
    /\ IF Config(p).redis /\ ~redisUp THEN Exit(p)
       ELSE Goto(p, [proc[p] EXCEPT !.at = "start"])
    /\ UNCHANGED <<path, tmp, content, redisUp, rotations>>

(* The mediator is put together, with the background tasks it needs.       *)
Tasks(c) ==
    (IF c.federation THEN {"relay_retries"} ELSE {})
    \union (IF c.mediation_ttl > 0 THEN {"cleanup"} ELSE {})
    \union (IF c.push.direct THEN {"pusher"} ELSE {})

(* What was read as text may be of no use: "fcm" may name a file that is   *)
(* not a service account, "apns_key" one that is no key.                   *)
Unusable(env, c) ==
    \/ c.push.direct /\ Lookup(env, "fcm") = Bad
    \/ c.push.direct /\ "apns" \in c.push.services /\ Lookup(env, "apns_key") = Bad
    \/ Lookup(env, "client_ip_header") = Bad

(* Credentials are read from their files, and the tasks started.           *)
Start(p) ==
    /\ proc[p].at = "start"
    /\ IF Unusable(proc[p].env, Config(p)) THEN Exit(p)
       ELSE Goto(p, [proc[p] EXCEPT !.at = "bind", !.tasks = Tasks(Config(p))])
    /\ UNCHANGED <<path, tmp, content, redisUp, rotations>>

InUse == UNION {{Config(q).port, Config(q).metrics_addr} : q \in
                  {r \in Processes : proc[r].at = "serving"}} \ {None}

Bind(p) ==
    /\ proc[p].at = "bind"
    /\ IF {Config(p).port, Config(p).metrics_addr} \cap InUse # {} THEN Exit(p)
       ELSE Goto(p, [proc[p] EXCEPT !.at = "serving"])
    /\ UNCHANGED <<path, tmp, content, redisUp, rotations>>

(* A signal, a crash or the end of the container, at any point.            *)
Stop(p) ==
    /\ proc[p].at \notin {"none", "exited"}
    /\ Exit(p)
    /\ UNCHANGED <<path, tmp, content, redisUp, rotations>>

RedisToggles ==
    /\ redisUp' = ~redisUp
    /\ UNCHANGED <<path, tmp, content, proc, rotations, overlapped>>

StartupNext ==
    \/ \E p \in Processes :
         \/ \E env \in Environments, command \in {"serve", "rotate-keys"} : Launch(p, command, env)
         \/ Check(p) \/ Read(p) \/ Open(p) \/ Write(p) \/ Rename(p)
         \/ OpenStore(p) \/ Start(p) \/ Bind(p) \/ Stop(p)
    \/ RedisToggles

StartupSpec == StartupInit /\ [][StartupNext]_startupVars

(***************************************************************************)
(* Properties                                                              *)
(***************************************************************************)
(* "A crash never leaves a half-written file behind": wherever processes   *)
(* stopped, the key file holds a whole set of keys or is not there.  Two   *)
(* that create keys at once share the temporary file: what they leave is   *)
(* not promised to be whole.                                               *)
KeyFileWhole == ~overlapped /\ path # None => content[path] # None

(* The DID, its document and the keys outlive the process: whatever        *)
(* restarts came before, a mediator that serves has the keys of the file,  *)
(* unless they were rotated since it read them.  So do all that serve.     *)
SameIdentity ==
    ~overlapped =>
      \A p \in Processes : proc[p].at = "serving" /\ proc[p].epoch = rotations
                             => path # None /\ proc[p].keys = content[path]
=============================================================================
