------------------------------ MODULE Weights ------------------------------
(***************************************************************************)
(* From a model's name to an engine that was started on it (internal/       *)
(* runtime): which engine, which of a repository's files, all of its parts   *)
(* onto the rented host, and the server that is started, or found again by a *)
(* later process.  The publisher may change the repository meanwhile, and a  *)
(* host that fails is replaced by another.                                   *)
(***************************************************************************)
EXTENDS Naturals, FiniteSets, FiniteSetsExt

CONSTANTS
  Repositories,    \* what a repository may hold, one time or another
  Orders,            \* what is asked for
  DefaultQuant,    \* llama.cpp's, where nothing was named
  Spaces           \* the room hosts have for weights

NoQuant == "none"
Unset == [kind |-> "none"]

\* A name says where a file is and which part it is of how many, a file that is
\* not split being none of none; the rest is what its listing says of it, the
\* format it is tagged with and those that occur in its name, as "f16" does in
\* "bf16", and what it holds.
FileName == {n \in [dir : STRING, stem : STRING, part : Nat, parts : Nat] : n.parts = 0 => n.part = 0}
Published == [name : FileName, tag : STRING, words : SUBSET STRING, holds : STRING,
              auxiliary : BOOLEAN, size : Nat, published : BOOLEAN, length : Nat]
Order == [tag : BOOLEAN, file : FileName \cup {Unset}, quant : STRING, runtime : STRING, fits : BOOLEAN]

ASSUME WeightsAssumption ==
  /\ Orders \subseteq Order
  /\ \A r \in Repositories :
       /\ r.files \subseteq Published /\ IsFiniteSet(r.files)
       /\ \A f, g \in r.files : f.name = g.name => f = g

VARIABLES
  ask, repository,
  settled,     \* what was settled on: refused, or a file, its bytes and its format
  node,        \* the host: its room, what it downloaded, the servers on it
  endpoint,    \* the server as the process knows it that serves from it
  moved        \* observer: the repository changed after it was listed
wvars == <<ask, repository, settled, node, endpoint, moved>>

-----------------------------------------------------------------------------
(* Engines                                                                 *)

Quantised == {"q4_k_m", "q8_0"}

\* The source, then the format, then whether it fits decide.
Pick(a) ==
  IF a.tag THEN "ollama"
  ELSE IF a.file # Unset \/ a.quant \in Quantised THEN "llamacpp"
  ELSE IF a.fits THEN "vllm" ELSE "llamacpp"

Engine(a) == IF a.runtime # "any" THEN a.runtime ELSE Pick(a)

\* The packings an engine loads, of those that are known.
AcceptsQuant(engine, scheme) ==
  IF engine = "vllm" THEN scheme \in {"awq", "gptq", "int4", "int8", "fp8", "nvfp4", "mxfp4"}
  ELSE scheme = "gguf"

-----------------------------------------------------------------------------
(* A repository's files                                                    *)

\* Mutant of ShardFiles: a set is its first part.
ShardFilesFirst(name) == {[name EXCEPT !.part = Min({@, 1})]}

\* Every part of the set that a name is of; a file that is not split is its own.
ShardFiles(name) ==
  IF name.parts = 0 THEN {name} ELSE {[name EXCEPT !.part = i] : i \in 1..name.parts}

\* What a publisher says is so: the format that a name is tagged with, or one of
\* those that occur in one that is not tagged, is what the file holds; what looks
\* like a model is one; and the parts of a set are of one model.
ASSUME NamesTell ==
  \A r \in Repositories : \A f \in r.files :
    /\ ~f.auxiliary => /\ f.holds # "other"
                       /\ f.tag # NoQuant => f.holds = f.tag
                       /\ f.words # {} => f.holds \in f.words
    /\ \A g \in r.files : g.name \in ShardFiles(f.name) =>
         g.tag = f.tag /\ g.words = f.words /\ g.holds = f.holds /\ g.auxiliary = f.auxiliary

First(name) == [name EXCEPT !.part = Min({name.parts, 1})]
laterShard(name) == name # First(name)

\* A name without its directory.
localName(name) == [name EXCEPT !.dir = "."]

Names(files) == {f.name : f \in files}
File(files, name) == CHOOSE f \in files : f.name = name
completeSet(files, name) == ShardFiles(name) \subseteq Names(files)

Bytes(files) == MapThenSumSet(LAMBDA f : f.size, files)

\* All of the parts' sizes, or none.
shardBytes(files, name) ==
  LET parts == {f \in files : f.name \in ShardFiles(name)}
  IN IF \E f \in parts : ~f.published THEN 0 ELSE Bytes(parts)

\* A format has several spellings, and of a folder's "ud-" nothing is looked for.
quantAliases(quant) ==
  IF quant \in {"fp16", "f16"} THEN "f16" ELSE IF quant = "ud-q4_k_m" THEN "q4_k_m" ELSE quant

\* The format a name is tagged with is compared whole; of a name that has none,
\* any word will do.
matchesQuant(f, quant) ==
  IF f.tag # NoQuant THEN f.tag = quantAliases(quant) ELSE quantAliases(quant) \in f.words

Declined == [kind |-> "refused"]
Settled(files, name, quant) ==
  [kind |-> "settled", file |-> name, bytes |-> shardBytes(files, name), quant |-> quant]

\* A file that was named: it is there with the rest of its set, is a model, and
\* what it says of its format is what was asked for.
namedFile(files, name, quant) ==
  LET first == First(name)
      f == File(files, first)
  IN IF \/ name \notin Names(files) \/ ~completeSet(files, first)
        \/ f.auxiliary
        \/ quant # NoQuant /\ f.tag # NoQuant /\ ~matchesQuant(f, quant)
        \/ quant = NoQuant /\ f.tag = NoQuant
     THEN Declined
     ELSE Settled(files, first, IF f.tag = NoQuant THEN quant ELSE f.tag)

\* Of the models in the format asked for, first parts only.
Candidates(files, quant) ==
  {f \in files : ~laterShard(f.name) /\ ~f.auxiliary /\ matchesQuant(f, quant)}

\* The one with the shortest name, if its set is all there.
pickQuant(files, quant) ==
  LET candidates == Candidates(files, quant)
  IN {IF completeSet(files, f.name) THEN Settled(files, f.name, quant) ELSE Declined :
        f \in {c \in candidates : \A d \in candidates : c.length <= d.length}}

\* A set of one outcome or, of names as short as each other, several.
ResolveGGUF(files, a) ==
  LET found == pickQuant(files, IF a.quant = NoQuant THEN DefaultQuant ELSE a.quant)
  IN IF a.file # Unset THEN {namedFile(files, a.file, a.quant)}
     ELSE IF found = {} THEN {Declined} ELSE found

\* An Ollama tag has the format that its header names, and a size; the other
\* engines settle a format alone.
ResolveWeights(r, a) ==
  CASE Engine(a) = "llamacpp" -> ResolveGGUF(r.files, a)
    [] Engine(a) = "ollama" -> {IF r.header THEN [Declined EXCEPT !.kind = "tag"] ELSE Declined}
    [] OTHER -> {[Declined EXCEPT !.kind = "format"]}

-----------------------------------------------------------------------------
(* Before renting                                                          *)

\* The survey settles the weights, or refuses; a packing that is known and that
\* the engine cannot load is refused too.
Settle ==
  /\ settled = Unset
  /\ settled' \in
       IF repository.packed # "unknown" /\ ~AcceptsQuant(Engine(ask), repository.packed)
       THEN {Declined} ELSE ResolveWeights(repository, ask)
  /\ UNCHANGED <<ask, repository, node, endpoint, moved>>

\* The publisher changes what the name stands for.
Republish(r) ==
  /\ r # repository /\ repository' = r
  /\ moved' = (settled # Unset)
  /\ UNCHANGED <<ask, settled, node, endpoint>>

-----------------------------------------------------------------------------
(* The host                                                                *)

Fresh(space) == [kind |-> "host", space |-> space, begun |-> FALSE, got |-> {},
                 launched |-> Unset, servers |-> {}]

Rent(space) ==
  /\ settled.kind \notin {"none", "refused"} /\ node = Unset
  /\ node' = Fresh(space)
  /\ UNCHANGED <<ask, repository, settled, endpoint, moved>>

\* A host that fails before its server is started is given up for the next.
Fails ==
  /\ node # Unset /\ node.launched = Unset
  /\ node' = Unset
  /\ UNCHANGED <<ask, repository, settled, endpoint, moved>>

\* The room is asked for before the download, and where it can be had and the
\* size is known, refuses one that will not fit.
checkFreeSpace(measured) ==
  /\ node # Unset /\ ~node.begun /\ Engine(ask) # "ollama"
  /\ measured /\ settled.kind = "settled" => node.space >= settled.bytes
  /\ node' = [node EXCEPT !.begun = TRUE]
  /\ UNCHANGED <<ask, repository, settled, endpoint, moved>>

Held(name) == localName(name) \in {localName(f.name) : f \in node.got}

\* One part after another, from whatever the repository is now; the name that it
\* has on the host is without its directory.
downloadCmd(name) ==
  /\ node # Unset /\ node.begun /\ settled.kind = "settled"
  /\ name \in ShardFiles(settled.file) /\ ~Held(name)
  /\ \A earlier \in ShardFiles(settled.file) : earlier.part < name.part => Held(earlier)
  /\ name \in Names(repository.files)
  /\ LET f == File(repository.files, name)
     IN /\ Bytes(node.got \cup {f}) <= node.space
        /\ node' = [node EXCEPT !.got = @ \cup {f}]
  /\ UNCHANGED <<ask, repository, settled, endpoint, moved>>

\* What Bootstrap is over with: llama.cpp's parts, and Ollama's tag, which its
\* daemon pulls; vLLM fetches when it is started.
Bootstrapped ==
  /\ node.begun
  /\ settled.kind = "settled" => \A name \in ShardFiles(settled.file) : Held(name)

-----------------------------------------------------------------------------
(* The server                                                              *)

\* Sixteen-bit weights on a card that has no bfloat16; a card that did not answer
\* is left alone.
needsHalfOverride(capability, quant) ==
  capability \in 1..799 /\ quant \in {"fp16", "f16", "bf16", NoQuant}

\* The command names the first part, and a key where the engine takes one.
launchCommand(capability) ==
  [by |-> "larri", engine |-> Engine(ask), bind |-> "loopback", key |-> Engine(ask) # "ollama",
   model |-> IF settled.kind = "settled" THEN localName(settled.file) ELSE Unset,
   half |-> Engine(ask) = "vllm" /\ needsHalfOverride(capability, ask.quant)]

\* What runs already is told to stop, and whatever that command comes to the server
\* is started.
Started(server) == {{server} \cup kept : kept \in SUBSET node.servers}

\* Ollama's daemon is started before its tag is pulled, and not again.
StartsDaemon ==
  /\ node # Unset /\ ~node.begun /\ Engine(ask) = "ollama"
  /\ node' \in {[node EXCEPT !.begun = TRUE, !.servers = now] : now \in Started(launchCommand(0))}
  /\ UNCHANGED <<ask, repository, settled, endpoint, moved>>

Launch(capability) ==
  /\ node # Unset /\ Bootstrapped /\ node.launched = Unset
  /\ LET server == launchCommand(capability)
     IN /\ node' \in {[node EXCEPT !.launched = server, !.servers = now] :
                       now \in IF Engine(ask) = "ollama" THEN {node.servers} ELSE Started(server)}
        /\ endpoint' = server
  /\ UNCHANGED <<ask, repository, settled, moved>>

\* A server goes.
Exits ==
  /\ node # Unset
  /\ \E server \in node.servers : node' = [node EXCEPT !.servers = @ \ {server}]
  /\ UNCHANGED <<ask, repository, settled, endpoint, moved>>

\* The image, or somebody, starts one, with a key of its own or without; an Ollama
\* has none, and listens where it was told to or where it does by default.  One at
\* a time.
Foreign ==
  /\ node # Unset /\ \A server \in node.servers : server.by = "larri"
  /\ \E bind \in IF Engine(ask) = "ollama" THEN {"loopback", "default", "network"} ELSE {"network"},
        key \in IF Engine(ask) = "ollama" THEN {FALSE} ELSE BOOLEAN :
       node' = [node EXCEPT !.servers = @ \cup
         {[by |-> "another", engine |-> Engine(ask), bind |-> bind, key |-> key, model |-> Unset, half |-> FALSE]}]
  /\ UNCHANGED <<ask, repository, settled, endpoint, moved>>

\* The process that serves ends.
Forget ==
  /\ endpoint # Unset /\ endpoint' = Unset
  /\ UNCHANGED <<ask, repository, settled, node, moved>>

\* A server with a key is taken for one that was started from here; so is, of
\* Ollama, which has no key, one that was not told to listen anywhere else.
Ours(server) == IF server.engine = "ollama" THEN server.bind # "network" ELSE server.key

\* What a later process finds running, of several any, it takes, with the key in its
\* arguments.
Reattach ==
  /\ endpoint = Unset /\ node # Unset /\ node.launched # Unset
  /\ \E server \in node.servers : Ours(server) /\ endpoint' = server
  /\ UNCHANGED <<ask, repository, settled, node, moved>>

-----------------------------------------------------------------------------
WeightsInit ==
  /\ ask \in Orders /\ repository \in Repositories
  /\ settled = Unset /\ node = Unset /\ endpoint = Unset /\ moved = FALSE

WeightsNext ==
  \/ Settle
  \/ \E r \in Repositories : Republish(r)
  \/ \E space \in Spaces : Rent(space)
  \/ Fails \/ StartsDaemon \/ Exits \/ Foreign \/ Forget \/ Reattach
  \/ \E measured \in BOOLEAN : checkFreeSpace(measured)
  \/ \E name \in UNION {Names(r.files) : r \in Repositories} : downloadCmd(name)
  \/ \E capability \in {0, 700, 800} : Launch(capability)

WeightsSpec == WeightsInit /\ [][WeightsNext]_wvars

-----------------------------------------------------------------------------
(* Properties                                                              *)

\* A file whose name is not tagged is what the operator says who named it, or else
\* one in whose name the format asked for occurs, and what it holds.
TakenByItsName(f, format) == f.tag = NoQuant /\ (ask.file # Unset \/ {f.holds, format} \subseteq f.words)

FormatWanted == quantAliases(IF ask.quant = NoQuant /\ ask.file = Unset THEN DefaultQuant ELSE ask.quant)

\* A llama.cpp server is started on a host that has every part that it will look
\* for, each once, of a model, in the format asked for or the default, as far as the
\* names tell; and unless the publisher changed the repository meanwhile, these are
\* the files that were listed, and as large as the size the rental was sized by, if
\* there was one.  A server of larri's that a later process finds is that one.
ServesWhatWasAsked ==
  /\ endpoint # Unset /\ endpoint.by = "larri" => endpoint = node.launched
  /\ node # Unset /\ node.launched # Unset /\ settled.kind = "settled" =>
       LET parts == {f \in node.got : localName(f.name) \in
                                        {localName(n) : n \in ShardFiles(settled.file)}}
       IN /\ node.launched.model = localName(settled.file)
          /\ Cardinality(parts) = IF settled.file.parts = 0 THEN 1 ELSE settled.file.parts
          /\ ~moved =>
               /\ \A f \in parts :
                    /\ f.holds # "other"
                    /\ f.holds = FormatWanted \/ FormatWanted = NoQuant \/ TakenByItsName(f, FormatWanted)
               /\ settled.bytes # 0 => Bytes(parts) = settled.bytes

\* What the comments say, and the code does not keep.  A server that is found is one
\* that larri started: not where another has a key of its own, or is an Ollama that
\* was not told where to listen (violated).
FindsItsOwn == endpoint # Unset => endpoint.by = "larri"

\* Where no file was named none of a neighbouring format is taken: one is, whose
\* name is not tagged and has the format asked for within another's (violated).
TakesNoNeighbour ==
  node # Unset /\ ask.file = Unset /\ ~moved => \A f \in node.got : f.holds = FormatWanted
=============================================================================
