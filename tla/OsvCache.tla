------------------------------- MODULE OsvCache -------------------------------
(***************************************************************************)
(* OSVClient (osv_client.py): each run of the scanner loads the cache file *)
(* into memory, answers query_packages from it, asks the OSV service for   *)
(* the rest in chunks with bounded retries, and rewrites the file.  Runs   *)
(* share the file without a lock, and may be killed at any point.          *)
(*                                                                         *)
(* A list of advisories is abstracted to what the matcher makes of it:     *)
(* none ("clean"), one whose affected ranges are missing ("stub"), or a    *)
(* complete one ("full").  The service publishes advisories over time.     *)
(***************************************************************************)
EXTENDS Integers, FiniteSets, FiniteSetsExt

CONSTANTS Clients,      \* runs of the scanner that may overlap
          Packages,     \* normalized package names
          ChunkSize,    \* batch_chunk_size
          Retries       \* values max_retries is given

ASSUME SizesAssumption == ChunkSize \in Nat \ {0} /\ Retries \subseteq Nat
ASSUME FiniteAssumption == IsFiniteSet(Packages)

VARIABLES published,    \* packages the service has an advisory for
          disk,         \* the cache file
          pc,           \* where each client is in query_packages
          conf,         \* its max_retries and offline_mode
          mem,          \* its _memory_cache
          dirty,        \* its cache_dirty
          wanted,       \* the packages it was asked about
          pending,      \* pending_names
          chunk,        \* the batch being fetched
          attempt,      \* its attempts so far
          answer,       \* results_map
          vouched       \* history: packages a response had no advisory for

clientVars == <<pc, conf, mem, dirty, wanted, pending, chunk, attempt, answer>>
vars == <<published, disk, clientVars, vouched>>

Unknown == "unknown"
Entries == {"clean", "stub", "full"}
Caches == [Packages -> Entries \cup {Unknown}]
NoCache == [p \in Packages |-> Unknown]
TornFile == [state |-> "torn", cache |-> NoCache]

(* OSVQueryResult: the list and where it comes from; the matcher turns the  *)
(* sources error and offline_fallback without a list into UNRESOLVED.       *)
Sources == {"network", "cache", "offline_fallback", "error"}
NoAnswer == [entry |-> Unknown, source |-> "error"]
Answers == [entry: Entries, source: Sources] \cup {NoAnswer}
Unanswered == [p \in Packages |-> NoAnswer]
Answer(entry, source) == [entry |-> entry, source |-> source]

(* The constructor's arguments; offline, max_retries is kept but never      *)
(* looked at.                                                               *)
Configs == [retries: Retries, offline: BOOLEAN]
Default == [retries |-> 0, offline |-> TRUE]

Cached(c) == {p \in wanted[c] : mem[c][p] # Unknown}

TypeOK ==
    /\ {published, vouched} \subseteq SUBSET Packages
    /\ disk \in [state: {"absent", "torn", "whole"}, cache: Caches]
    /\ pc \in [Clients -> {"off", "lookup", "chunk", "fetch", "save", "write", "done"}]
    /\ conf \in [Clients -> Configs \cup {Default}]
    /\ mem \in [Clients -> Caches]
    /\ dirty \in [Clients -> BOOLEAN]
    /\ answer \in [Clients -> [Packages -> Answers]]
    /\ attempt \in [Clients -> Nat]
    /\ {wanted, pending, chunk} \subseteq [Clients -> SUBSET Packages]
    /\ \A c \in Clients : /\ Cardinality(chunk[c]) <= ChunkSize
                          /\ pc[c] = "fetch" => attempt[c] <= conf[c].retries

Init ==
    /\ published = {} /\ vouched = {}
    /\ disk = [state |-> "absent", cache |-> NoCache]
    /\ pc = [c \in Clients |-> "off"]
    /\ conf = [c \in Clients |-> Default]
    /\ mem = [c \in Clients |-> NoCache]
    /\ dirty = [c \in Clients |-> FALSE]
    /\ wanted = [c \in Clients |-> {}]
    /\ pending = [c \in Clients |-> {}]
    /\ chunk = [c \in Clients |-> {}]
    /\ attempt = [c \in Clients |-> 0]
    /\ answer = [c \in Clients |-> Unanswered]

-----------------------------------------------------------------------------
(* A run: __init__, then query_packages.                                    *)

(* _load_disk_cache: a file that does not parse is ignored.                 *)
Loaded == IF disk.state = "whole" THEN disk.cache ELSE NoCache

Start(c) ==
    /\ pc[c] = "off"
    /\ \E names \in SUBSET Packages \ {{}} : wanted' = [wanted EXCEPT ![c] = names]
    /\ \E k \in Configs : conf' = [conf EXCEPT ![c] = k]
    /\ mem' = [mem EXCEPT ![c] = Loaded]
    /\ answer' = [answer EXCEPT ![c] = Unanswered]
    /\ pc' = [pc EXCEPT ![c] = "lookup"]
    /\ UNCHANGED <<published, disk, dirty, pending, chunk, attempt, vouched>>

(* _hydrate_vulns: each stub is completed, or stays if its detail cannot be *)
(* fetched; offline nothing is asked.                                       *)
Hydrations(c, cache, names) ==
    {h \in [names -> Entries] :
        \A p \in names : \/ h[p] = cache[p]
                         \/ cache[p] = "stub" /\ h[p] = "full" /\ ~conf[c].offline}

With(cache, new) == [p \in Packages |-> IF p \in DOMAIN new THEN new[p] ELSE cache[p]]

(* Mutant: offline, the packages not in the cache get no answer.             *)
LookUpDrops(c) ==
    /\ pc[c] = "lookup"
    /\ answer' = [answer EXCEPT ![c] = [p \in Packages |->
            IF p \in Cached(c) THEN Answer(mem[c][p], "cache") ELSE @[p]]]
    /\ pending' = [pending EXCEPT ![c] = IF conf[c].offline THEN {} ELSE wanted[c] \ Cached(c)]
    /\ pc' = [pc EXCEPT ![c] = "chunk"]
    /\ UNCHANGED <<published, disk, conf, mem, dirty, wanted, chunk, attempt, vouched>>

(* Cached names are answered, the others become pending; offline these are  *)
(* answered as unverified.                                                  *)
LookUp(c) ==
    /\ pc[c] = "lookup"
    /\ \E h \in Hydrations(c, mem[c], Cached(c)) :
       /\ mem' = [mem EXCEPT ![c] = With(@, h)]
       /\ answer' = [answer EXCEPT ![c] = [p \in Packages |->
            IF p \in Cached(c) THEN Answer(h[p], "cache")
            ELSE IF p \in wanted[c] /\ conf[c].offline THEN Answer("clean", "offline_fallback")
            ELSE @[p]]]
    /\ dirty' = [dirty EXCEPT ![c] = ~conf[c].offline /\ \E p \in Cached(c) : mem[c][p] = "stub"]
    /\ pending' = [pending EXCEPT ![c] = IF conf[c].offline THEN {} ELSE wanted[c] \ Cached(c)]
    /\ pc' = [pc EXCEPT ![c] = "chunk"]
    /\ UNCHANGED <<published, disk, conf, wanted, chunk, attempt, vouched>>

(* Mutant: one batch, whatever its size.                                     *)
NextBatch(c) ==
    /\ pc[c] = "chunk" /\ pending[c] # {}
    /\ chunk' = [chunk EXCEPT ![c] = pending[c]]
    /\ pending' = [pending EXCEPT ![c] = {}]
    /\ pc' = [pc EXCEPT ![c] = "fetch"]
    /\ UNCHANGED <<published, disk, conf, mem, dirty, wanted, attempt, answer, vouched>>

NextChunk(c) ==
    /\ pc[c] = "chunk" /\ pending[c] # {}
    /\ \E names \in kSubset(Min({ChunkSize, Cardinality(pending[c])}), pending[c]) :
       /\ chunk' = [chunk EXCEPT ![c] = names]
       /\ pending' = [pending EXCEPT ![c] = @ \ names]
    /\ pc' = [pc EXCEPT ![c] = "fetch"]
    /\ UNCHANGED <<published, disk, conf, mem, dirty, wanted, attempt, answer, vouched>>

EndChunk(c) ==
    /\ chunk' = [chunk EXCEPT ![c] = {}]
    /\ attempt' = [attempt EXCEPT ![c] = 0]
    /\ pc' = [pc EXCEPT ![c] = "chunk"]

(* The loop over range(max_retries) makes no attempt: the chunk map is empty. *)
NoAttempt(c) ==
    /\ pc[c] = "fetch" /\ conf[c].retries = 0
    /\ EndChunk(c)
    /\ UNCHANGED <<published, disk, conf, mem, dirty, wanted, pending, answer, vouched>>

CanAttempt(c) == pc[c] = "fetch" /\ attempt[c] < conf[c].retries

(* A 200 response.  Names it has no result for, because the list is shorter *)
(* than the chunk or an entry is no object, get an empty list; advisories   *)
(* come as stubs and are hydrated.  All of it is cached.                    *)
Response(c, absent) ==
    [p \in chunk[c] |-> IF p \in published \ absent THEN "stub" ELSE "clean"]

Fetched(c) ==
    /\ CanAttempt(c)
    /\ \E absent \in SUBSET chunk[c] :
       /\ \E h \in Hydrations(c, Response(c, absent), chunk[c]) :
          /\ mem' = [mem EXCEPT ![c] = With(@, h)]
          /\ answer' = [answer EXCEPT ![c] = [p \in Packages |->
                IF p \in chunk[c] THEN Answer(h[p], "network") ELSE @[p]]]
       /\ vouched' = vouched \cup {p \in chunk[c] : Response(c, absent)[p] = "clean"}
    /\ dirty' = [dirty EXCEPT ![c] = TRUE]
    /\ EndChunk(c)
    /\ UNCHANGED <<published, disk, conf, wanted, pending>>

GiveUp(c, source) ==
    /\ answer' = [answer EXCEPT ![c] = [p \in Packages |->
            IF p \in chunk[c] THEN Answer("clean", source) ELSE @[p]]]
    /\ EndChunk(c)

(* Mutant: the empty list of a refused batch is cached.                      *)
RefusedCached(c) ==
    /\ CanAttempt(c)
    /\ GiveUp(c, "error")
    /\ mem' = [mem EXCEPT ![c] = With(@, [p \in chunk[c] |-> "clean"])]
    /\ dirty' = [dirty EXCEPT ![c] = TRUE]
    /\ UNCHANGED <<published, disk, conf, wanted, pending, vouched>>

(* 4xx fails fast.                                                          *)
Refused(c) ==
    /\ CanAttempt(c)
    /\ GiveUp(c, "error")
    /\ UNCHANGED <<published, disk, conf, mem, dirty, wanted, pending, vouched>>

(* 5xx, a timeout, the network, a body that is no JSON object: backoff and  *)
(* retry, until the attempts are used up.                                   *)
Unreachable(c, source) ==
    /\ CanAttempt(c)
    /\ \/ /\ attempt[c] < conf[c].retries - 1
          /\ attempt' = [attempt EXCEPT ![c] = @ + 1]
          /\ UNCHANGED <<pc, chunk, answer>>
       \/ attempt[c] = conf[c].retries - 1 /\ GiveUp(c, source)
    /\ UNCHANGED <<published, disk, conf, mem, dirty, wanted, pending, vouched>>

Finish(c) ==
    /\ pc[c] = "chunk" /\ pending[c] = {}
    /\ pc' = [pc EXCEPT ![c] = IF dirty[c] THEN "save" ELSE "done"]
    /\ UNCHANGED <<published, disk, conf, mem, dirty, wanted, pending, chunk, attempt, answer, vouched>>

-----------------------------------------------------------------------------
(* _save_disk_cache: write_text truncates the file, then writes.            *)

Truncate(c) ==
    /\ pc[c] = "save"
    /\ disk' = TornFile
    /\ pc' = [pc EXCEPT ![c] = "write"]
    /\ UNCHANGED <<published, conf, mem, dirty, wanted, pending, chunk, attempt, answer,
                   vouched>>

(* Over a longer text another run wrote since, its tail remains.            *)
WriteCache(c) ==
    /\ pc[c] = "write"
    /\ \/ disk' = [state |-> "whole", cache |-> mem[c]]
       \/ disk.state = "whole" /\ disk' = TornFile
    /\ pc' = [pc EXCEPT ![c] = "done"]
    /\ UNCHANGED <<published, conf, mem, dirty, wanted, pending, chunk, attempt, answer,
                   vouched>>

SaveFails(c) ==
    /\ pc[c] \in {"save", "write"}
    /\ pc' = [pc EXCEPT ![c] = "done"]
    /\ UNCHANGED <<published, disk, conf, mem, dirty, wanted, pending, chunk, attempt, answer, vouched>>

-----------------------------------------------------------------------------
(* The environment.                                                         *)

Publish(p) ==
    /\ p \notin published
    /\ published' = published \cup {p}
    /\ UNCHANGED <<disk, clientVars, vouched>>

(* The run ends, after its answers were reported or before.                 *)
Stop(c) ==
    /\ pc[c] # "off"
    /\ pc' = [pc EXCEPT ![c] = "off"]
    /\ conf' = [conf EXCEPT ![c] = Default]
    /\ mem' = [mem EXCEPT ![c] = NoCache]
    /\ dirty' = [dirty EXCEPT ![c] = FALSE]
    /\ wanted' = [wanted EXCEPT ![c] = {}]
    /\ pending' = [pending EXCEPT ![c] = {}]
    /\ chunk' = [chunk EXCEPT ![c] = {}]
    /\ attempt' = [attempt EXCEPT ![c] = 0]
    /\ answer' = [answer EXCEPT ![c] = Unanswered]
    /\ UNCHANGED <<published, disk, vouched>>

ClientStep(c) ==
    \/ LookUp(c) \/ NextChunk(c) \/ NoAttempt(c) \/ Fetched(c) \/ Refused(c)
    \/ Unreachable(c, "error") \/ Unreachable(c, "offline_fallback")
    \/ Finish(c) \/ Truncate(c) \/ WriteCache(c) \/ SaveFails(c)

Next ==
    \/ \E c \in Clients : ClientStep(c) \/ Start(c) \/ Stop(c)
    \/ \E p \in Packages : Publish(p)

Spec == Init /\ [][Next]_vars

-----------------------------------------------------------------------------
(* match_dependency: packages it reports nothing about.  An empty list is   *)
(* proof from the network or the cache, and an advisory without affected    *)
(* ranges matches no version.                                               *)
Silent(a) == \/ a.entry = "clean" /\ a.source \in {"network", "cache"}
             \/ a.entry = "stub"
Passed(c) == {p \in Packages : Silent(answer[c][p])}

(* A package that has an advisory is passed over in silence only because a  *)
(* response, of this run or of one whose cache it reads, had none for it,   *)
(* or because its advisory could not be hydrated.  Retries, errors, offline *)
(* runs, torn cache files and runs that overlap on the file never make a    *)
(* package look clean.                                                      *)
NoSilentClean ==
    \A c \in Clients : \A p \in Passed(c) \cap published :
        p \in vouched \/ answer[c][p].entry = "stub"

(* A package no request may be made for: the run is online, has it in no    *)
(* cache, and max_retries is 0.                                             *)
NeverAsked(c, p) == ~conf[c].offline /\ conf[c].retries = 0 /\ mem[c][p] = Unknown

(* A run that ends has answered every package it was asked about, offline   *)
(* runs with any max_retries included, except that an online run with       *)
(* max_retries 0 gives the packages it has not cached no answer at all.     *)
EveryPackageAnswered ==
    \A c \in Clients : pc[c] = "done" =>
        \A p \in wanted[c] : answer[c][p] # NoAnswer \/ NeverAsked(c, p)

=============================================================================
