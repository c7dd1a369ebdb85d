----------------------------- MODULE ClientKeys -----------------------------
(***************************************************************************)
(* Who may use a rig: the file of client keys, replaced by larri token and   *)
(* read by the process that serves (internal/clientkeys), and the local      *)
(* proxy's requests, each checked against it (internal/wire).  Writers are   *)
(* kept apart by a lock, readers take none: a request learns of a change     *)
(* from the file's stamp, its size and modification time, taken here to      *)
(* differ from write to write.                                               *)
(***************************************************************************)
EXTENDS Naturals, FiniteSets

CONSTANTS
  Writers,     \* runs of larri token, and
  Serving,     \* the process that serves a rig, which may make a first key
  Names,       \* of keys, "default" among them
  Requests,
  MaxMade,     \* bound: keys ever made
  MaxWrites,   \* bound: replacements of the file
  NoOne

ASSUME ClientKeysAssumption ==
  /\ Serving \notin Writers /\ NoOne \notin Writers \cup {Serving}
  /\ "default" \in Names /\ MaxMade \in Nat /\ MaxWrites \in Nat

VARIABLES
  keyFile,   \* the keys and the stamp; no stamp, no file
  keyLock,   \* who has the lock
  writer,    \* of each writer: what it does, and the keys it read
  made,      \* every key ever made: a value is never made again
  cache,     \* the serving process's copy of the file
  own,       \* the proxy accepts a key for this rig alone
  upstream,  \* the proxy has a rig to forward to
  line,      \* the serving process's way to telling the operator which key to use
  request,   \* of each request: its key, the stamp it saw and its answer; and whether
             \* its key was, and was not, stored at some time until then (observers)
  promised, ended  \* observers: keys shown and not asked to be revoked; keys revoked

kvars == <<keyFile, keyLock, writer, made, cache, own, upstream, line, request, promised, ended>>
proxy == <<cache, own, upstream, line>>

RigKey == [name |-> "this-rig", nr |-> 0]
Resting == [pc |-> "idle", op |-> "none", name |-> "none", read |-> {}]
NoRequest == [pc |-> "none", key |-> RigKey, stamp |-> 0, stored |-> FALSE, missing |-> FALSE, unread |-> FALSE]

Unanswered(r) == request[r].pc \in {"asked", "statted"}
Watched(q, keys) == [q EXCEPT !.stored = @ \/ q.key \in keys, !.missing = @ \/ q.key \notin keys]

-----------------------------------------------------------------------------
(* Writing                                                                 *)

\* Mutant of takesLock: writers do not wait for each other.
takesNone(w) == UNCHANGED keyLock

\* Writers of all processes take turns.
takesLock(w) == keyLock = NoOne /\ keyLock' = w

Begins(w, op, name) ==
  /\ writer[w].pc = "idle" /\ takesLock(w)
  /\ writer' = [writer EXCEPT ![w] = [pc |-> "locked", op |-> op, name |-> name, read |-> keyFile.keys]]
  /\ UNCHANGED <<keyFile, made, request, promised, ended>>

Holding(keys, name) == {k \in keys : k.name = name}

\* The file is replaced whole.  A value that is asked to be revoked is no promise.
ReplacedBy(keys) ==
  /\ keyFile.stamp < MaxWrites
  /\ keyFile' = [keys |-> keys, stamp |-> keyFile.stamp + 1]
  /\ request' = [r \in Requests |->
       IF Unanswered(r) THEN Watched(request[r], keys) ELSE request[r]]

\* Create and Revoke, of what was read under the lock: a name in use is no name
\* for another key, and one that is not holds none to revoke.
Create(w) ==
  LET new == [name |-> writer[w].name, nr |-> Cardinality(made) + 1]
  IN /\ writer[w].pc = "locked" /\ writer[w].op = "create" /\ Cardinality(made) < MaxMade
     /\ Holding(writer[w].read, writer[w].name) = {}
     /\ ReplacedBy(writer[w].read \cup {new})
     /\ made' = made \cup {new}
     /\ writer' = [writer EXCEPT ![w].pc = "replaced", ![w].read = {new}]
     /\ UNCHANGED <<keyLock, promised, ended>>

Revoke(w) ==
  LET gone == Holding(writer[w].read, writer[w].name)
  IN /\ writer[w].pc = "locked" /\ writer[w].op = "revoke" /\ gone # {}
     /\ ReplacedBy(writer[w].read \ gone)
     /\ promised' = promised \ gone
     /\ writer' = [writer EXCEPT ![w].pc = "replaced", ![w].read = gone]
     /\ UNCHANGED <<keyLock, made, ended>>

Unlock(w) == keyLock' = IF keyLock = w THEN NoOne ELSE keyLock

\* Refused, or a call failed: before the file is replaced nothing changes.
GivesUp(w) ==
  /\ writer[w].pc = "locked"
  /\ Unlock(w) /\ writer' = [writer EXCEPT ![w] = Resting]
  /\ UNCHANGED <<keyFile, made, request, promised, ended>>

\* The operator is told, unless the look at the new file fails.
Tells(w, told) ==
  /\ writer[w].pc = "replaced"
  /\ Unlock(w) /\ writer' = [writer EXCEPT ![w] = Resting]
  /\ promised' = IF told /\ writer[w].op = "create" THEN promised \cup writer[w].read ELSE promised
  /\ ended' = IF told /\ writer[w].op = "revoke" THEN ended \cup writer[w].read ELSE ended
  /\ UNCHANGED <<keyFile, made, request>>

Writer(w) ==
  \/ Create(w) \/ Revoke(w) \/ GivesUp(w)
  \/ \E told \in BOOLEAN : Tells(w, told)

-----------------------------------------------------------------------------
(* The key a rig is announced with                                         *)

Unwritten == UNCHANGED <<keyFile, keyLock, writer, made, promised, ended>>

\* attachTunnel: the proxy has a rig, and takes the stored keys or, where that was
\* asked for or they cannot be read, one made for the rig.
attachTunnel(alone) ==
  /\ line = "none" /\ upstream' = TRUE
  /\ own' = alone /\ line' = IF alone THEN "told" ELSE "ready"
  /\ Unwritten /\ UNCHANGED <<cache, request>>

\* keyInfo: the stored keys are listed, and named where there are any.
ListsKeys ==
  /\ line = "ready" /\ line' = IF keyFile.keys = {} THEN "empty" ELSE "told"
  /\ Unwritten /\ UNCHANGED <<cache, own, upstream, request>>

\* Where none was stored a first one is made, of what is stored by then.
MakesDefault ==
  /\ line = "empty" /\ Begins(Serving, "create", "default")
  /\ line' = "making" /\ UNCHANGED <<cache, own, upstream>>

\* Where they cannot be read, or it cannot be made, the rig has its own.
AddRigKey ==
  /\ line \in {"ready", "failed"} /\ own' = TRUE /\ line' = "told"
  /\ Unwritten /\ UNCHANGED <<cache, upstream, request>>

\* The end of what it began.
MadeDefault ==
  /\ line = "making"
  /\ \/ Create(Serving) /\ UNCHANGED line
     \/ GivesUp(Serving) /\ line' = "failed"
     \/ \E told \in BOOLEAN : Tells(Serving, told) /\ line' = IF told THEN "told" ELSE "failed"
  /\ UNCHANGED <<cache, own, upstream>>

\* Down.
Drains ==
  /\ upstream /\ upstream' = FALSE
  /\ Unwritten /\ UNCHANGED <<cache, own, line, request>>

-----------------------------------------------------------------------------
(* Requests                                                                *)

Turns(r, pc) == request' = [request EXCEPT ![r].pc = pc]

\* A request brings a key that was made, or one for a rig alone, or none.
Arrives(r, key) ==
  /\ line # "none" /\ request[r].pc = "none"
  /\ request' = [request EXCEPT ![r] =
       Watched([NoRequest EXCEPT !.pc = "asked", !.key = key], keyFile.keys)]
  /\ Unwritten /\ UNCHANGED proxy

\* The proxy's own keys first; then the file is looked at.
authenticate(r) ==
  /\ request[r].pc = "asked"
  /\ IF own /\ request[r].key = RigKey THEN Turns(r, "admitted")
     ELSE request' = [request EXCEPT ![r].pc = "statted", ![r].stamp = keyFile.stamp]
  /\ Unwritten /\ UNCHANGED proxy

\* Mutant of current: what was read once is kept.
currentOnce(r, fails) ==
  IF request[r].stamp = 0 THEN [stamp |-> 0, keys |-> {}]
  ELSE IF cache.stamp # 0 THEN cache
  ELSE IF fails THEN [stamp |-> 0, keys |-> {}]
  ELSE [stamp |-> request[r].stamp, keys |-> keyFile.keys]

\* The copy is good while the stamp is its own; otherwise the file is read, and
\* is kept under the stamp seen before the read.  No file has no keys, and one
\* that cannot be read matches none.
current(r, fails) ==
  IF request[r].stamp = 0 THEN [stamp |-> 0, keys |-> {}]
  ELSE IF cache.stamp = request[r].stamp THEN cache
  ELSE IF fails THEN [stamp |-> 0, keys |-> {}]
  ELSE [stamp |-> request[r].stamp, keys |-> keyFile.keys]

Match(r, fails) ==
  /\ request[r].pc = "statted"
  /\ cache' = current(r, fails)
  /\ request' = [request EXCEPT ![r].unread = fails, ![r].stamp = 0,
                                ![r].pc = IF request[r].key \in cache'.keys THEN "admitted" ELSE "unauthorized"]
  /\ Unwritten /\ UNCHANGED <<own, upstream, line>>

\* Forwarded to the rig there is then; between rigs it is not served.
Forwards(r) ==
  /\ request[r].pc = "admitted"
  /\ Turns(r, IF upstream THEN "forwarded" ELSE "unavailable")
  /\ Unwritten /\ UNCHANGED proxy

ServeHTTP(r) ==
  \/ authenticate(r) \/ Forwards(r)
  \/ \E fails \in BOOLEAN : Match(r, fails)

-----------------------------------------------------------------------------
KeysInit ==
  /\ keyFile = [keys |-> {}, stamp |-> 0] /\ keyLock = NoOne /\ made = {}
  /\ writer = [w \in Writers \cup {Serving} |-> Resting]
  /\ cache = [stamp |-> 0, keys |-> {}] /\ own = FALSE /\ upstream = FALSE /\ line = "none"
  /\ request = [r \in Requests |-> NoRequest] /\ promised = {} /\ ended = {}

KeysNext ==
  \/ \E w \in Writers, op \in {"create", "revoke"}, name \in Names : Begins(w, op, name) /\ UNCHANGED proxy
  \/ \E w \in Writers : Writer(w) /\ UNCHANGED proxy
  \/ \E alone \in BOOLEAN : attachTunnel(alone)
  \/ ListsKeys \/ MakesDefault \/ AddRigKey \/ MadeDefault \/ Drains
  \/ \E r \in Requests :
       \/ \E key \in made \cup {RigKey} : Arrives(r, key)
       \/ ServeHTTP(r)

KeysSpec == KeysInit /\ [][KeysNext]_kvars

-----------------------------------------------------------------------------
(* Properties                                                              *)

\* However many create and revoke at once: a key whose value was shown is stored
\* until somebody asks for its end, and one that was revoked never again.
AckedKeysStand == promised \subseteq keyFile.keys /\ ended \cap keyFile.keys = {}

\* A rig that serves admits a key exactly while it is stored: one revoked before
\* the request came is refused, whatever the process had read before, and one
\* stored throughout is admitted unless the file could not be read.
KeysDecide ==
  \A r \in Requests :
    LET q == request[r]
        rigs == own /\ q.key = RigKey
    IN /\ q.pc \in {"admitted", "forwarded", "unavailable"} => q.stored \/ rigs
       /\ q.pc = "unauthorized" => q.unread \/ q.missing
=============================================================================
