------------------------------- MODULE Startup -------------------------------
(***************************************************************************)
(* What a program does with its files before its controller starts, and     *)
(* what a crash leaves of them: the configuration is searched and parsed,   *)
(* NewController completes and saves it, TLSConfig gets a certificate from  *)
(* an authority once and renews it later (config/, controller.go:66-95).    *)
(* The program itself is not in the repository: one that gives up without a *)
(* configuration touches no file.                                           *)
(*                                                                          *)
(* A file is absent, torn (empty or cut) or complete.                       *)
(***************************************************************************)
EXTENDS ConfigTree, Integers

CONSTANTS Paths,       \* directories that may be searched, in this order
          Keys,        \* keys that handlers set
          MaxFaults,   \* bound: crashes, failed writes and refusals
          MaxSets      \* bound: values set by handlers

ASSUME StartupAssumption ==
    /\ Paths \in Seq(STRING) /\ Paths # <<>> /\ <<>> \notin Keys /\ MaxFaults \in Nat /\ MaxSets \in Nat

VARIABLES
    paths,     \* searchPaths
    file, old, \* per directory, the configuration and the one before
    data,      \* conf.data
    current,   \* conf.currentPath, 0 if none
    pc,        \* what the program does
    sync,      \* what is left of a Sync
    ids,       \* identities generated so far
    key, cert, \* client.key and client.cert
    req,       \* the last key a request was made for
    faults, sets,
    hist       \* history: see the properties

confVars == <<paths, file, old, data, current>>
tlsVars == <<key, cert, req>>
vars == <<confVars, pc, sync, ids, tlsVars, faults, sets, hist>>

Absent == [st |-> "absent"]
Torn == [st |-> "torn"]
Whole(t) == [st |-> "whole", tree |-> t]

(* Trees a user writes: something of his own, a log level, an identity.     *)
User == <<"user">>
LogLevel == <<"log_level">>
Identity == <<"identity">>
UserTree(level) == [k \in {User, LogLevel} |-> Leaf(IF k = User THEN 1 ELSE level)]
UserTrees == {UserTree("info"), UserTree("bad"), Set(UserTree("info"), Identity, Leaf(0))}
Everywhere == 1..Len(Paths)
NoKey == 0
TornKey == -1
NoCert == [st |-> "absent"]
Pair(k) == [st |-> "whole", of |-> k]

(* AddSearchPath keeps the directories that exist. *)
SearchPaths == {SubSeq(Paths, 1, n) : n \in 0..Len(Paths)}

Places == {"down", "level", "identity", "tls", "key", "sign", "save", "write", "load", "running", "renew"}
IsFile(f) == f \in {Absent, Torn} \/ (f.st = "whole" /\ f = Whole(f.tree))

(* Of the identities and of the keys, all but one are owed to a fault. *)
TypeOK ==
    /\ paths \in SearchPaths
    /\ DOMAIN file = Everywhere /\ \A p \in Everywhere : IsFile(file[p])
    /\ DOMAIN old = Everywhere /\ \A p \in Everywhere : IsFile(old[p])
    /\ current \in 0..Len(paths) /\ pc \in Places
    /\ sync \in {"", "rename", "create", "write", "flush"}
    /\ sync # "" => pc \in {"identity", "tls"}
    /\ ids \in 0..faults + 1 /\ req \in 0..faults + 1
    /\ key \in {TornKey} \cup 0..req
    /\ cert \in {NoCert, Torn} \cup {Pair(k) : k \in 1..req}
    /\ faults \in 0..MaxFaults /\ sets \in 0..MaxSets
    /\ DOMAIN hist = {"had", "buried", "stuck", "broken", "synced", "halfPair"}
    /\ hist.had \subseteq Everywhere /\ hist.buried \subseteq Everywhere /\ hist.stuck \subseteq Everywhere
    /\ hist.broken \in BOOLEAN /\ hist.halfPair \in BOOLEAN

Init ==
    /\ paths \in SearchPaths
    /\ file \in [Everywhere -> {Absent} \cup {Whole(t) : t \in UserTrees}]
    /\ \A p \in Everywhere : p > Len(paths) => file[p] = Absent
    /\ old = [p \in Everywhere |-> Absent]
    /\ data = Empty /\ current = 0 /\ pc = "down" /\ sync = ""
    /\ ids = 0 /\ key = NoKey /\ cert = NoCert /\ req = 0 /\ faults = 0 /\ sets = 0
    /\ hist = [had |-> {p \in Everywhere : file[p] # Absent}, buried |-> {}, stuck |-> {},
               broken |-> FALSE, synced |-> Empty, halfPair |-> FALSE]

Fault == faults < MaxFaults /\ faults' = faults + 1
Fails(ok) == IF ok THEN UNCHANGED faults ELSE Fault

-------------------------------------------------------------------------------
(* ParseConfig: the last directory that has the file. *)
Found == {p \in 1..Len(paths) : file[p] # Absent}
FoundAt == IF Found = {} THEN 0 ELSE CHOOSE p \in Found : \A q \in Found : q <= p

Parsed(f) == IF f.st = "whole" THEN f.tree ELSE Empty

(* After the error of a file that is torn or missing the program goes on    *)
(* with what it has, nothing.                                               *)
ParseConfig ==
    /\ pc = "down"
    /\ paths = <<>> => ids = 0            \* bound: one run without a place to save to
    /\ current' = FoundAt
    /\ data' = IF FoundAt = 0 THEN Empty ELSE Parsed(file[FoundAt])
    /\ pc' = "level"
    /\ UNCHANGED <<paths, file, old, sync, ids, tlsVars, faults, sets, hist>>

(* NewController: a log level that is wrong is replaced, a missing one not, *)
NewLevel ==
    /\ pc = "level" /\ pc' = "identity"
    /\ IF Get(data, LogLevel) = Leaf("bad")
       THEN data' = Set(data, LogLevel, Leaf("debug")) /\ sync' = "rename"
       ELSE UNCHANGED <<data, sync>>
    /\ UNCHANGED <<paths, file, old, current, ids, tlsVars, faults, sets, hist>>

(* ... and so is a missing identity. *)
NewIdentity ==
    /\ pc = "identity" /\ sync = "" /\ pc' = "tls"
    /\ IF Get(data, Identity) = Nil
       THEN data' = Set(data, Identity, Leaf(ids + 1)) /\ ids' = ids + 1 /\ sync' = "rename"
       ELSE UNCHANGED <<data, ids, sync>>
    /\ UNCHANGED <<paths, file, old, current, tlsVars, faults, sets, hist>>

-------------------------------------------------------------------------------
(* Mutant: the old file is left where it is, to be overwritten. *)
SyncTruncates(ok) ==
    /\ sync = "rename" /\ ok
    /\ current' = IF current = 0 /\ paths # <<>> THEN 1 ELSE current
    /\ sync' = IF current' = 0 THEN "" ELSE "create"
    /\ UNCHANGED <<paths, file, old, data, pc, ids, tlsVars, faults, sets, hist>>

(* Mutant: Sync writes where it would create a file. *)
SyncToFirst(ok) ==
    /\ sync = "rename" /\ ok
    /\ current' = IF paths = <<>> THEN 0 ELSE 1
    /\ sync' = IF current' = 0 THEN "" ELSE "create"
    /\ UNCHANGED <<paths, file, old, data, pc, ids, tlsVars, faults, sets, hist>>

(* Sync: without a directory the first one is taken, otherwise the file is  *)
(* renamed, if it is there, and left where it is if that fails, which       *)
(* nobody looks at; ...                                                     *)
SyncRenames(ok) ==
    /\ sync = "rename" /\ Fails(ok)
    /\ ok \/ (current # 0 /\ file[current] # Absent)
    /\ current' = IF current = 0 /\ paths # <<>> THEN 1 ELSE current
    /\ sync' = IF current' = 0 THEN "" ELSE "create"
    /\ IF ok /\ current # 0 /\ file[current] # Absent
       THEN /\ file' = [file EXCEPT ![current] = Absent]
            /\ old' = [old EXCEPT ![current] = file[current]]
            /\ hist' = [hist EXCEPT !.buried = IF file[current] = Torn THEN @ \cup {current} ELSE @]
       ELSE /\ hist' = IF ok THEN hist ELSE [hist EXCEPT !.stuck = @ \cup {current}]
            /\ UNCHANGED <<file, old>>
    /\ UNCHANGED <<paths, data, pc, ids, tlsVars, sets>>

(* ... an empty file is made, or the one that is there cut to nothing, ...  *)
SyncCreates(ok) ==
    /\ sync = "create" /\ Fails(ok)
    /\ file' = IF ok THEN [file EXCEPT ![current] = Torn] ELSE file
    /\ sync' = IF ok THEN "write" ELSE ""
    /\ hist' = IF ok THEN hist ELSE [hist EXCEPT !.broken = TRUE]
    /\ UNCHANGED <<paths, old, data, current, pc, ids, tlsVars, sets>>

(* ... written ... *)
SyncWrites(ok) ==
    /\ sync = "write" /\ Fails(ok)
    /\ file' = IF ok THEN [file EXCEPT ![current] = Whole(data)] ELSE file
    /\ sync' = IF ok THEN "flush" ELSE ""
    /\ hist' = IF ok THEN hist ELSE [hist EXCEPT !.broken = TRUE]
    /\ UNCHANGED <<paths, old, data, current, pc, ids, tlsVars, sets>>

(* ... and on the disk.  Nobody looks at the errors of Sync. *)
SyncFlushes ==
    /\ sync = "flush" /\ sync' = ""
    /\ hist' = [hist EXCEPT !.synced = data]
    /\ UNCHANGED <<confVars, pc, ids, tlsVars, faults, sets>>

-------------------------------------------------------------------------------
(* Mutant: a new pair every time. *)
NeverHasPair == FALSE

(* Mutant: the key is looked for, the certificate is not. *)
HasKey == key # NoKey

HasLocalKeyPair == key # NoKey /\ cert # NoCert

(* TLSConfig: without a directory, or a token that makes sense, an error.   *)
TLSConfig(ok) ==
    /\ pc = "tls" /\ sync = "" /\ Fails(ok)
    /\ pc' = IF ~ok \/ current = 0 THEN "down" ELSE IF HasLocalKeyPair THEN "load" ELSE "key"
    /\ UNCHANGED <<confVars, sync, ids, tlsVars, sets, hist>>

(* The key of the request is saved; an error of that is ignored, and leaves *)
(* the old key, or a torn one that is taken for a key; ...                  *)
SavesKey(ok) ==
    /\ pc = "key" /\ pc' = "sign" /\ Fails(ok)
    /\ req' = req + 1
    /\ key' \in IF ok THEN {req'} ELSE {key, TornKey}
    /\ hist' = [hist EXCEPT !.halfPair = @ \/ ~ok]
    /\ UNCHANGED <<confVars, sync, ids, cert, sets>>

(* ... the authority signs it or does not; ...                              *)
Signs(ok) ==
    /\ pc = "sign" /\ Fails(ok)
    /\ pc' = IF ok THEN "save" ELSE "down"
    /\ UNCHANGED <<confVars, sync, ids, tlsVars, sets, hist>>

(* ... saveCertificate truncates the file before it writes ...              *)
TruncatesCertificate ==
    /\ pc = "save" /\ pc' = "write" /\ cert' = Torn
    /\ UNCHANGED <<confVars, sync, ids, key, req, faults, sets, hist>>

(* (a certificate that is renewed while the program runs is saved in the    *)
(* same way, for the key of the file)                                       *)
Renews ==
    /\ pc = "running" /\ pc' = "renew" /\ cert' = Torn
    /\ UNCHANGED <<confVars, sync, ids, key, req, faults, sets, hist>>

(* ... and an error ends TLSConfig, but not a renewal. *)
WritesCertificate(ok) ==
    /\ pc \in {"write", "renew"} /\ Fails(ok)
    /\ cert' = IF ok THEN Pair(IF pc = "write" THEN req ELSE key) ELSE cert
    /\ pc' = IF pc = "renew" THEN "running" ELSE IF ok THEN "load" ELSE "down"
    /\ hist' = [hist EXCEPT !.halfPair = @ \/ ~ok]
    /\ UNCHANGED <<confVars, sync, ids, key, req, sets>>

Loadable == cert = Pair(key)

(* An error of loadCertificate is ignored as well, but the library that is  *)
(* to renew the certificate has none then, and panics.                      *)
LoadsCertificate ==
    /\ pc = "load"
    /\ pc' = IF Loadable THEN "running" ELSE "down"
    /\ UNCHANGED <<confVars, sync, ids, tlsVars, faults, sets, hist>>

-------------------------------------------------------------------------------
(* A handler sets a value of its own, which no one saves. *)
HandlerSets(k) ==
    /\ pc = "running" /\ sets < MaxSets
    /\ sets' = sets + 1
    /\ IF SetPanics(data, k) THEN pc' = "down" /\ UNCHANGED data
       ELSE data' = Set(data, k, Leaf(sets)) /\ UNCHANGED pc
    /\ UNCHANGED <<paths, file, old, current, sync, ids, tlsVars, faults, hist>>

Stops ==
    /\ pc = "running" /\ pc' = "down"
    /\ UNCHANGED <<confVars, sync, ids, tlsVars, faults, sets, hist>>

(* The process is killed, or the power fails and what was not flushed is    *)
(* not on the disk.                                                         *)
Crash(power) ==
    /\ pc # "down" /\ pc' = "down" /\ Fault
    /\ power => sync = "flush"
    /\ file' = IF power THEN [file EXCEPT ![current] = Torn] ELSE file
    /\ sync' = ""
    /\ hist' = [hist EXCEPT !.broken = @ \/ sync # "", !.halfPair = @ \/ cert = Torn]
    /\ UNCHANGED <<paths, old, data, current, ids, tlsVars, sets>>

Goes ==
    \/ ParseConfig \/ NewLevel \/ NewIdentity
    \/ SyncFlushes \/ LoadsCertificate
    \/ \E ok \in BOOLEAN : SyncRenames(ok) \/ SyncCreates(ok) \/ SyncWrites(ok)
                           \/ TLSConfig(ok) \/ SavesKey(ok) \/ Signs(ok) \/ WritesCertificate(ok)
    \/ TruncatesCertificate

Next ==
    \/ Goes
    \/ Renews
    \/ (\E k \in Keys : HandlerSets(k))
    \/ Stops
    \/ \E power \in BOOLEAN : Crash(power)

Spec == Init /\ [][Next]_vars

(* A program that stopped is started again, and one that runs goes on.      *)
FairSpec == Spec /\ WF_vars(Goes)
-------------------------------------------------------------------------------
(* Properties. *)

HasUser(f) == User \in DOMAIN Parsed(f)

(* What the user wrote is on the disk at every moment, in the file or in    *)
(* the .old one, whatever write fails and whenever a crash comes            *)
(* (config.go:162-195), with two exceptions: a torn file that a later Sync  *)
(* renames takes the place of the .old one, and a file that could not be    *)
(* renamed is overwritten.  Neither happens as long as no Sync was cut      *)
(* short: then only a Sync at work keeps it out of the file, even one that  *)
(* could not rename it.                                                     *)
UserDataKept ==
    /\ \A p \in hist.had \ (hist.buried \cup hist.stuck) : HasUser(file[p]) \/ HasUser(old[p])
    /\ ~hist.broken =>
           \A p \in hist.had : HasUser(file[p]) \/ (p = current /\ sync \in {"create", "write"})

(* What Sync saved is what the next start reads, whichever of the           *)
(* directories has a file (config.go:88, 162).                              *)
SyncedIsRead ==
    [][pc = "down" /\ pc' = "level" /\ hist.synced # Empty /\ ~hist.broken => data' = hist.synced]_vars

(* A refusal of the authority, or a crash before the certificate is         *)
(* written, never leaves a key and a certificate that do not match          *)
(* (tls.go:46-69): they would be taken for a pair for ever.                 *)
BrokenPair == key # NoKey /\ cert # NoCert /\ cert # Pair(key)
PairMatches == BrokenPair => hist.halfPair \/ pc \in {"write", "renew"}

(* A program that has a directory gets its certificate in the end, whatever *)
(* failed before, unless a pair was left broken.                            *)
BootstrapSucceeds ==
    (pc = "down" /\ paths # <<>>) ~> (pc = "running" \/ BrokenPair)
===============================================================================
