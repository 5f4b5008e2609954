----------------------------- MODULE OsvCacheProofs -----------------------------
(***************************************************************************)
(* Proofs about OsvCache for any number of overlapping runs, packages,     *)
(* batch sizes and retries.                                                *)
(*                                                                         *)
(* That a package looks clean only if a response said so cannot be seen    *)
(* from a run's answers alone: they come from its memory, which comes from *)
(* the file, which any run may have written.  VouchedInv says it of all    *)
(* three.  AnsweredInv says where a package without an answer still is.    *)
(***************************************************************************)
EXTENDS OsvCache, FiniteSetTheorems, TLAPS

\* An empty list, wherever it is kept, was the list of a response.
VouchedInv ==
    /\ \A p \in Packages : disk.cache[p] = "clean" => p \in vouched
    /\ \A c \in Clients, p \in Packages :
          /\ mem[c][p] = "clean" => p \in vouched
          /\ answer[c][p].entry = "clean" /\ answer[c][p].source \in {"network", "cache"}
                => p \in vouched

\* A package that was asked about has an answer, is still to be fetched, or never will be; what
\* is still to be fetched is in no cache, and is fetched once.
AnsweredInv ==
    \A c \in Clients :
        /\ pc[c] \in {"chunk", "fetch", "save", "write", "done"} =>
              \A p \in wanted[c] : \/ answer[c][p] # NoAnswer
                                   \/ NeverAsked(c, p)
                                   \/ p \in pending[c] \cup chunk[c]
        /\ \A p \in pending[c] \cup chunk[c] : mem[c][p] = Unknown /\ ~conf[c].offline
        /\ pending[c] \cap chunk[c] = {}
        /\ pc[c] # "fetch" => chunk[c] = {} /\ attempt[c] = 0
        /\ pc[c] \notin {"chunk", "fetch"} => pending[c] = {}

IInv == TypeOK /\ VouchedInv /\ AnsweredInv

-----------------------------------------------------------------------------
LEMMA CacheFacts ==
    /\ NoCache \in Caches
    /\ \A p \in Packages : NoCache[p] # "clean"
    /\ \A p \in Packages : TornFile.cache[p] # "clean"
    /\ TornFile \in [state: {"absent", "torn", "whole"}, cache: Caches]
    /\ NoAnswer \in Answers /\ NoAnswer.entry # "clean"
    /\ Unanswered \in [Packages -> Answers]
    /\ Default.retries = 0
BY DEF NoCache, Caches, Entries, Unknown, TornFile, Answers, NoAnswer, Unanswered, Default, Configs

LEMMA AnswerFacts ==
    ASSUME NEW e \in Entries, NEW s \in Sources
    PROVE  /\ Answer(e, s) \in Answers /\ Answer(e, s) # NoAnswer
           /\ Answer(e, s).entry = e /\ Answer(e, s).source = s
BY DEF Answer, Answers, NoAnswer, Entries, Unknown

\* What TypeOK says, one variable at a time.
LEMMA Typed ==
    ASSUME TypeOK
    PROVE  /\ published \in SUBSET Packages /\ vouched \in SUBSET Packages
           /\ disk \in [state: {"absent", "torn", "whole"}, cache: Caches]
           /\ pc \in [Clients -> {"off", "lookup", "chunk", "fetch", "save", "write", "done"}]
           /\ conf \in [Clients -> Configs \cup {Default}] /\ mem \in [Clients -> Caches]
           /\ dirty \in [Clients -> BOOLEAN] /\ answer \in [Clients -> [Packages -> Answers]]
           /\ attempt \in [Clients -> Nat]
           /\ wanted \in [Clients -> SUBSET Packages] /\ pending \in [Clients -> SUBSET Packages]
           /\ chunk \in [Clients -> SUBSET Packages]
           /\ \A c \in Clients : conf[c].retries \in Nat
<1>1. \A k \in Configs \cup {Default} : k.retries \in Nat
  <2>1. \A k \in Configs : k.retries \in Nat
    BY SizesAssumption DEF Configs
  <2> QED
    BY <2>1, CacheFacts
<1>2. conf \in [Clients -> Configs \cup {Default}]
  BY DEF TypeOK
<1>3. \A c \in Clients : conf[c].retries \in Nat
  BY <1>1, <1>2
<1> QED
  BY <1>3 DEF TypeOK

\* The empty chunk after a batch, and the attempts it starts with.
LEMMA EndChunkFacts ==
    ASSUME NEW c \in Clients, IInv, EndChunk(c)
    PROVE  /\ chunk' \in [Clients -> SUBSET Packages] /\ attempt' \in [Clients -> Nat]
           /\ pc' \in [Clients -> {"off", "lookup", "chunk", "fetch", "save", "write", "done"}]
           /\ \A d \in Clients : /\ chunk'[d] = IF d = c THEN {} ELSE chunk[d]
                                 /\ attempt'[d] = IF d = c THEN 0 ELSE attempt[d]
                                 /\ pc'[d] = IF d = c THEN "chunk" ELSE pc[d]
           /\ \A d \in Clients : Cardinality(chunk'[d]) <= ChunkSize
<1>1. /\ chunk' \in [Clients -> SUBSET Packages] /\ attempt' \in [Clients -> Nat]
      /\ pc' \in [Clients -> {"off", "lookup", "chunk", "fetch", "save", "write", "done"}]
      /\ \A d \in Clients : /\ chunk'[d] = IF d = c THEN {} ELSE chunk[d]
                            /\ attempt'[d] = IF d = c THEN 0 ELSE attempt[d]
                            /\ pc'[d] = IF d = c THEN "chunk" ELSE pc[d]
  BY Typed DEF IInv, EndChunk
<1>2. Cardinality({}) = 0
  BY FS_EmptySet
<1>3. \A d \in Clients : Cardinality(chunk'[d]) <= ChunkSize
  <2>1. Cardinality({}) <= ChunkSize
    BY <1>2, SizesAssumption
  <2>2. \A d \in Clients : Cardinality(chunk[d]) <= ChunkSize
    BY DEF IInv, TypeOK
  <2> QED
    BY <1>1, <2>1, <2>2
<1> QED
  BY <1>1, <1>3

-----------------------------------------------------------------------------
\* A run starts, looks its packages up, and takes the next batch.

LEMMA StartStep == ASSUME NEW c \in Clients, IInv, Start(c) PROVE IInv'
<1>1. Loaded \in Caches /\ \A p \in Packages : Loaded[p] = "clean" => p \in vouched
  BY Typed, CacheFacts DEF Loaded, IInv, VouchedInv
<1>2. TypeOK'
  BY <1>1, Typed, CacheFacts DEF Start, IInv, TypeOK
<1>3. VouchedInv'
  <2>1. \A d \in Clients : /\ mem'[d] = IF d = c THEN Loaded ELSE mem[d]
                           /\ answer'[d] = IF d = c THEN Unanswered ELSE answer[d]
    BY Typed DEF Start, IInv
  <2>2. \A p \in Packages : Unanswered[p].entry # "clean"
    BY CacheFacts DEF Unanswered
  <2> QED
    BY <1>1, <2>1, <2>2 DEF Start, IInv, VouchedInv
<1>4. AnsweredInv'
  BY Typed DEF Start, IInv, AnsweredInv, NeverAsked
<1> QED
  BY <1>2, <1>3, <1>4 DEF IInv

\* Completing a stub makes it no empty list.
LEMMA HydrationsIs ==
    ASSUME NEW c, NEW cache, NEW names, \A p \in names : cache[p] \in Entries,
           NEW h \in Hydrations(c, cache, names)
    PROVE  /\ DOMAIN h = names
           /\ \A p \in names : h[p] \in Entries /\ (h[p] = "clean" => cache[p] = "clean")
BY DEF Hydrations, Entries

LEMMA WithIs ==
    ASSUME NEW cache \in Caches, NEW h, \A p \in DOMAIN h : h[p] \in Entries
    PROVE  /\ With(cache, h) \in Caches
           /\ \A p \in Packages : With(cache, h)[p] = IF p \in DOMAIN h THEN h[p] ELSE cache[p]
BY DEF With, Caches

LEMMA LookUpStep == ASSUME NEW c \in Clients, IInv, LookUp(c) PROVE IInv'
<1> PICK h \in Hydrations(c, mem[c], Cached(c)) :
       /\ mem' = [mem EXCEPT ![c] = With(@, h)]
       /\ answer' = [answer EXCEPT ![c] = [p \in Packages |->
            IF p \in Cached(c) THEN Answer(h[p], "cache")
            ELSE IF p \in wanted[c] /\ conf[c].offline THEN Answer("clean", "offline_fallback")
            ELSE @[p]]]
  BY DEF LookUp
<1>1. mem[c] \in Caches /\ Cached(c) \subseteq Packages /\ Cached(c) \subseteq wanted[c]
      /\ \A p \in Cached(c) : mem[c][p] \in Entries
  BY Typed DEF IInv, Cached, Caches
<1>2. /\ DOMAIN h = Cached(c)
      /\ \A p \in Cached(c) : h[p] \in Entries /\ (h[p] = "clean" => mem[c][p] = "clean")
  BY <1>1, HydrationsIs
<1>3. /\ With(mem[c], h) \in Caches
      /\ \A p \in Packages : With(mem[c], h)[p] = IF p \in Cached(c) THEN h[p] ELSE mem[c][p]
  BY <1>1, <1>2, WithIs
<1>4. {"cache", "offline_fallback"} \subseteq Sources /\ "clean" \in Entries
  BY DEF Sources, Entries
<1> DEFINE a == [p \in Packages |->
            IF p \in Cached(c) THEN Answer(h[p], "cache")
            ELSE IF p \in wanted[c] /\ conf[c].offline THEN Answer("clean", "offline_fallback")
            ELSE answer[c][p]]
<1>5. /\ mem' \in [Clients -> Caches] /\ answer' \in [Clients -> [Packages -> Answers]]
      /\ \A d \in Clients : /\ mem'[d] = IF d = c THEN With(mem[c], h) ELSE mem[d]
                            /\ answer'[d] = IF d = c THEN a ELSE answer[d]
  <2>1. a \in [Packages -> Answers]
    BY <1>2, <1>4, AnswerFacts, Typed DEF IInv
  <2>2. answer' = [answer EXCEPT ![c] = a]
    BY Typed DEF IInv
  <2> HIDE DEF a
  <2> QED
    BY <1>3, <2>1, <2>2, Typed DEF IInv
<1>6. \A p \in Packages :
         /\ a[p].entry = "clean" /\ a[p].source \in {"network", "cache"} => p \in vouched
         /\ p \in wanted[c] => a[p] # NoAnswer \/ (p \in wanted[c] \ Cached(c) /\ ~conf[c].offline)
  <2> TAKE p \in Packages
  <2>1. CASE p \in Cached(c)
    BY <2>1, <1>2, <1>4, AnswerFacts DEF IInv, VouchedInv
  <2>2. CASE p \notin Cached(c) /\ p \in wanted[c] /\ conf[c].offline
    BY <2>2, <1>4, AnswerFacts
  <2>3. CASE p \notin Cached(c) /\ ~(p \in wanted[c] /\ conf[c].offline)
    BY <2>3 DEF IInv, VouchedInv
  <2> QED
    BY <2>1, <2>2, <2>3
<1> HIDE DEF a
<1>7. /\ pc' = [pc EXCEPT ![c] = "chunk"] /\ pc[c] = "lookup"
      /\ pending' = [pending EXCEPT ![c] = IF conf[c].offline THEN {} ELSE wanted[c] \ Cached(c)]
      /\ dirty' \in [Clients -> BOOLEAN]
      /\ UNCHANGED <<published, disk, conf, wanted, chunk, attempt, vouched>>
  BY Typed DEF LookUp, IInv
<1>8. TypeOK'
  <2>1. pending' \in [Clients -> SUBSET Packages]
    BY <1>7, Typed DEF IInv
  <2> QED
    BY <1>5, <1>7, <2>1, Typed DEF IInv, TypeOK
<1>9. VouchedInv'
  BY <1>2, <1>3, <1>5, <1>6, <1>7 DEF IInv, VouchedInv
<1>10. AnsweredInv'
  <2> SUFFICES ASSUME NEW d \in Clients
               PROVE  /\ pc'[d] \in {"chunk", "fetch", "save", "write", "done"} =>
                            \A p \in wanted[d] : \/ answer'[d][p] # NoAnswer
                                                 \/ NeverAsked(d, p)'
                                                 \/ p \in pending'[d] \cup chunk[d]
                      /\ \A p \in pending'[d] \cup chunk[d] : mem'[d][p] = Unknown /\ ~conf[d].offline
                      /\ pending'[d] \cap chunk[d] = {}
                      /\ pc'[d] # "fetch" => chunk[d] = {} /\ attempt[d] = 0
                      /\ pc'[d] \notin {"chunk", "fetch"} => pending'[d] = {}
    BY <1>7 DEF AnsweredInv
  <2>1. /\ pc[d] \in {"chunk", "fetch", "save", "write", "done"} =>
             \A p \in wanted[d] : \/ answer[d][p] # NoAnswer
                                  \/ NeverAsked(d, p)
                                  \/ p \in pending[d] \cup chunk[d]
        /\ \A p \in pending[d] \cup chunk[d] : mem[d][p] = Unknown /\ ~conf[d].offline
        /\ pending[d] \cap chunk[d] = {}
        /\ pc[d] # "fetch" => chunk[d] = {} /\ attempt[d] = 0
        /\ pc[d] \notin {"chunk", "fetch"} => pending[d] = {}
    BY DEF IInv, AnsweredInv
  <2>2. CASE d = c
    <3>1. /\ pc'[c] = "chunk" /\ answer'[c] = a
          /\ pending'[c] = IF conf[c].offline THEN {} ELSE wanted[c] \ Cached(c)
      BY <1>5, <1>7, Typed DEF IInv
    <3>2. \A p \in wanted[c] : a[p] # NoAnswer \/ p \in pending'[c]
      BY <1>6, <3>1, Typed DEF IInv
    <3>3. chunk[c] = {}
      BY <1>7, <2>1, <2>2
    <3>4. \A p \in pending'[c] : mem'[c][p] = Unknown /\ ~conf[c].offline
      BY <1>3, <1>5, <3>1, Typed DEF IInv, Cached
    <3> QED
      BY <1>7, <2>1, <2>2, <3>1, <3>2, <3>3, <3>4
  <2>3. CASE d # c
    <3>1. /\ pc'[d] = pc[d] /\ answer'[d] = answer[d] /\ pending'[d] = pending[d]
          /\ mem'[d] = mem[d]
      BY <1>5, <1>7, <2>3, Typed DEF IInv
    <3> QED
      BY <1>7, <2>1, <3>1 DEF NeverAsked
  <2> QED
    BY <2>2, <2>3
<1> QED
  BY <1>8, <1>9, <1>10 DEF IInv

LEMMA NextChunkStep == ASSUME NEW c \in Clients, IInv, NextChunk(c) PROVE IInv'
<1> PICK names \in kSubset(Min({ChunkSize, Cardinality(pending[c])}), pending[c]) :
       /\ chunk' = [chunk EXCEPT ![c] = names]
       /\ pending' = [pending EXCEPT ![c] = @ \ names]
  BY DEF NextChunk
<1>1. names \subseteq pending[c] /\ Cardinality(names) <= ChunkSize
  <2> DEFINE S == {ChunkSize, Cardinality(pending[c])}
  <2>1. Cardinality(pending[c]) \in Nat
    BY FiniteAssumption, FS_Subset, FS_CardinalityType, Typed DEF IInv
  <2>2. \E x \in S : \A y \in S : x <= y
    BY <2>1, SizesAssumption
  <2>3. \A y \in S : Min(S) <= y
    BY <2>2 DEF Min
  <2>4. names \subseteq pending[c] /\ Cardinality(names) = Min(S)
    BY DEF kSubset
  <2> QED
    BY <2>3, <2>4
<1>2. /\ pc[c] = "chunk" /\ pc' = [pc EXCEPT ![c] = "fetch"]
      /\ UNCHANGED <<published, disk, conf, mem, dirty, wanted, attempt, answer, vouched>>
  BY DEF NextChunk
<1>3. TypeOK'
  <2>1. /\ chunk' \in [Clients -> SUBSET Packages] /\ pending' \in [Clients -> SUBSET Packages]
        /\ pc' \in [Clients -> {"off", "lookup", "chunk", "fetch", "save", "write", "done"}]
    BY <1>1, <1>2, Typed DEF IInv
  <2>2. \A d \in Clients : Cardinality(chunk'[d]) <= ChunkSize
    BY <1>1, Typed DEF IInv, TypeOK
  <2>3. \A d \in Clients : pc'[d] = "fetch" => attempt[d] <= conf[d].retries
    <3>1. attempt[c] = 0 /\ conf[c].retries \in Nat
      BY <1>2, Typed DEF IInv, AnsweredInv
    <3> QED
      BY <1>2, <3>1, Typed DEF IInv, TypeOK
  <2> QED
    BY <1>2, <2>1, <2>2, <2>3, Typed DEF IInv, TypeOK
<1>4. VouchedInv'
  BY <1>2 DEF IInv, VouchedInv
<1>5. AnsweredInv'
  BY <1>1, <1>2, Typed DEF IInv, AnsweredInv, NeverAsked
<1> QED
  BY <1>3, <1>4, <1>5 DEF IInv

-----------------------------------------------------------------------------
\* A batch: no attempt, an answer, a refusal, or no answer.

\* A batch that ends without a response leaves the memory alone.
LEMMA BatchEnds ==
    ASSUME NEW c \in Clients, IInv, pc[c] = "fetch", EndChunk(c),
           answer' \in [Clients -> [Packages -> Answers]],
           \A d \in Clients \ {c} : answer'[d] = answer[d],
           \A p \in Packages : \/ answer'[c][p] = answer[c][p] /\ (p \in chunk[c] => conf[c].retries = 0)
                               \/ answer'[c][p].source \notin {"network", "cache"} /\ answer'[c][p] # NoAnswer,
           UNCHANGED <<published, disk, conf, mem, dirty, wanted, pending, vouched>>
    PROVE  IInv'
<1>1. /\ chunk' \in [Clients -> SUBSET Packages] /\ attempt' \in [Clients -> Nat]
      /\ pc' \in [Clients -> {"off", "lookup", "chunk", "fetch", "save", "write", "done"}]
      /\ \A d \in Clients : /\ chunk'[d] = IF d = c THEN {} ELSE chunk[d]
                            /\ attempt'[d] = IF d = c THEN 0 ELSE attempt[d]
                            /\ pc'[d] = IF d = c THEN "chunk" ELSE pc[d]
      /\ \A d \in Clients : Cardinality(chunk'[d]) <= ChunkSize
  BY EndChunkFacts
<1>2. TypeOK'
  BY <1>1, Typed DEF IInv, TypeOK
<1>3. VouchedInv'
  BY DEF IInv, VouchedInv
<1>4. AnsweredInv'
  BY <1>1, Typed DEF IInv, AnsweredInv, NeverAsked
<1> QED
  BY <1>2, <1>3, <1>4 DEF IInv

LEMMA NoAttemptStep == ASSUME NEW c \in Clients, IInv, NoAttempt(c) PROVE IInv'
<1>1. /\ pc[c] = "fetch" /\ EndChunk(c) /\ conf[c].retries = 0 /\ answer' = answer
      /\ UNCHANGED <<published, disk, conf, mem, dirty, wanted, pending, vouched>>
  BY DEF NoAttempt
<1>2. answer' \in [Clients -> [Packages -> Answers]]
  BY <1>1, Typed DEF IInv
<1> QED
  BY <1>1, <1>2, BatchEnds

LEMMA GiveUpStep ==
    ASSUME NEW c \in Clients, IInv, CanAttempt(c), NEW source \in {"error", "offline_fallback"},
           GiveUp(c, source),
           UNCHANGED <<published, disk, conf, mem, dirty, wanted, pending, vouched>>
    PROVE  IInv'
<1> DEFINE a == [p \in Packages |-> IF p \in chunk[c] THEN Answer("clean", source) ELSE answer[c][p]]
<1>1. "clean" \in Entries /\ source \in Sources
  BY DEF Entries, Sources
<1>2. /\ Answer("clean", source) \in Answers /\ Answer("clean", source) # NoAnswer
      /\ Answer("clean", source).source = source
  BY <1>1, AnswerFacts
<1>3. a \in [Packages -> Answers]
  BY <1>2, Typed DEF IInv
<1>4. answer' = [answer EXCEPT ![c] = a]
  BY Typed DEF IInv, GiveUp
<1>5. \A p \in Packages : \/ a[p] = answer[c][p] /\ p \notin chunk[c]
                          \/ a[p].source \notin {"network", "cache"} /\ a[p] # NoAnswer
  BY <1>2
<1> HIDE DEF a
<1>6. /\ answer' \in [Clients -> [Packages -> Answers]] /\ answer'[c] = a
      /\ \A d \in Clients \ {c} : answer'[d] = answer[d]
  BY <1>3, <1>4, Typed DEF IInv
<1>7. pc[c] = "fetch" /\ EndChunk(c)
  BY DEF CanAttempt, GiveUp
<1>8. \A p \in Packages : \/ answer'[c][p] = answer[c][p] /\ (p \in chunk[c] => conf[c].retries = 0)
                          \/ answer'[c][p].source \notin {"network", "cache"} /\ answer'[c][p] # NoAnswer
  BY <1>5, <1>6
<1> QED
  BY <1>6, <1>7, <1>8, BatchEnds

LEMMA RefusedStep == ASSUME NEW c \in Clients, IInv, Refused(c) PROVE IInv'
BY GiveUpStep DEF Refused

LEMMA UnreachableStep ==
    ASSUME NEW c \in Clients, IInv, NEW source \in {"error", "offline_fallback"}, Unreachable(c, source)
    PROVE  IInv'
<1>1. CASE attempt[c] = conf[c].retries - 1 /\ GiveUp(c, source)
  BY <1>1, GiveUpStep DEF Unreachable
<1>2. CASE /\ attempt[c] < conf[c].retries - 1
           /\ attempt' = [attempt EXCEPT ![c] = @ + 1] /\ UNCHANGED <<pc, chunk, answer>>
  <2>1. /\ pc[c] = "fetch"
        /\ UNCHANGED <<published, disk, conf, mem, dirty, wanted, pending, vouched>>
    BY DEF Unreachable, CanAttempt
  <2>2. /\ attempt' \in [Clients -> Nat]
        /\ \A d \in Clients : /\ pc[d] = "fetch" => attempt'[d] <= conf[d].retries
                              /\ d # c => attempt'[d] = attempt[d]
    BY <1>2, <2>1, Typed DEF IInv, TypeOK
  <2>3. TypeOK'
    BY <1>2, <2>1, <2>2 DEF IInv, TypeOK
  <2>4. VouchedInv'
    BY <1>2, <2>1 DEF IInv, VouchedInv
  <2>5. AnsweredInv'
    BY <1>2, <2>1, <2>2 DEF IInv, AnsweredInv, NeverAsked
  <2> QED
    BY <2>3, <2>4, <2>5 DEF IInv
<1> QED
  BY <1>1, <1>2 DEF Unreachable

LEMMA FetchedStep == ASSUME NEW c \in Clients, IInv, Fetched(c) PROVE IInv'
<1> PICK absent \in SUBSET chunk[c] :
       /\ \E h \in Hydrations(c, Response(c, absent), chunk[c]) :
          /\ mem' = [mem EXCEPT ![c] = With(@, h)]
          /\ answer' = [answer EXCEPT ![c] = [p \in Packages |->
                IF p \in chunk[c] THEN Answer(h[p], "network") ELSE @[p]]]
       /\ vouched' = vouched \cup {p \in chunk[c] : Response(c, absent)[p] = "clean"}
  BY DEF Fetched
<1> PICK h \in Hydrations(c, Response(c, absent), chunk[c]) :
       /\ mem' = [mem EXCEPT ![c] = With(@, h)]
       /\ answer' = [answer EXCEPT ![c] = [p \in Packages |->
             IF p \in chunk[c] THEN Answer(h[p], "network") ELSE @[p]]]
  OBVIOUS
<1>1. mem[c] \in Caches /\ chunk[c] \subseteq Packages
  BY Typed DEF IInv
<1>2. /\ DOMAIN h = chunk[c]
      /\ \A p \in chunk[c] : h[p] \in Entries /\ (h[p] = "clean" => p \in vouched')
  <2>1. \A p \in chunk[c] : Response(c, absent)[p] \in Entries
    BY DEF Response, Entries
  <2>2. /\ DOMAIN h = chunk[c]
        /\ \A p \in chunk[c] : h[p] \in Entries /\ (h[p] = "clean" => Response(c, absent)[p] = "clean")
    BY <2>1, HydrationsIs
  <2> QED
    BY <2>2
<1>3. /\ With(mem[c], h) \in Caches
      /\ \A p \in Packages : With(mem[c], h)[p] = IF p \in chunk[c] THEN h[p] ELSE mem[c][p]
  BY <1>1, <1>2, WithIs
<1> DEFINE a == [p \in Packages |-> IF p \in chunk[c] THEN Answer(h[p], "network") ELSE answer[c][p]]
<1>4. /\ \A p \in chunk[c] : /\ a[p] \in Answers /\ a[p] # NoAnswer /\ a[p].entry = h[p]
      /\ \A p \in Packages \ chunk[c] : a[p] = answer[c][p]
      /\ a \in [Packages -> Answers]
  <2>1. "network" \in Sources
    BY DEF Sources
  <2>2. \A p \in chunk[c] : /\ Answer(h[p], "network") \in Answers /\ Answer(h[p], "network") # NoAnswer
                            /\ Answer(h[p], "network").entry = h[p]
    BY <1>2, <2>1, AnswerFacts
  <2> QED
    BY <1>1, <2>2, Typed DEF IInv
<1>5. answer' = [answer EXCEPT ![c] = a]
  BY Typed DEF IInv
<1> HIDE DEF a
<1>6. /\ mem' \in [Clients -> Caches] /\ answer' \in [Clients -> [Packages -> Answers]]
      /\ \A d \in Clients : /\ mem'[d] = IF d = c THEN With(mem[c], h) ELSE mem[d]
                            /\ answer'[d] = IF d = c THEN a ELSE answer[d]
  BY <1>3, <1>4, <1>5, Typed DEF IInv
<1>7. /\ chunk' \in [Clients -> SUBSET Packages] /\ attempt' \in [Clients -> Nat]
      /\ pc' \in [Clients -> {"off", "lookup", "chunk", "fetch", "save", "write", "done"}]
      /\ \A d \in Clients : /\ chunk'[d] = IF d = c THEN {} ELSE chunk[d]
                            /\ attempt'[d] = IF d = c THEN 0 ELSE attempt[d]
                            /\ pc'[d] = IF d = c THEN "chunk" ELSE pc[d]
      /\ \A d \in Clients : Cardinality(chunk'[d]) <= ChunkSize
  BY EndChunkFacts DEF Fetched
<1>8. /\ pc[c] = "fetch" /\ dirty' = [dirty EXCEPT ![c] = TRUE]
      /\ UNCHANGED <<published, disk, conf, wanted, pending>>
      /\ vouched \subseteq vouched' /\ vouched' \in SUBSET Packages
  BY <1>1, Typed DEF Fetched, CanAttempt, IInv
<1>9. TypeOK'
  <2>1. dirty' \in [Clients -> BOOLEAN]
    BY <1>8, Typed DEF IInv
  <2> QED
    BY <1>6, <1>7, <1>8, <2>1, Typed DEF IInv, TypeOK
<1>10. VouchedInv'
  BY <1>2, <1>3, <1>4, <1>6, <1>8 DEF IInv, VouchedInv
<1>11. AnsweredInv'
  <2>1. \A d \in Clients \ {c} : mem'[d] = mem[d] /\ answer'[d] = answer[d]
    BY <1>6
  <2>2. conf[c].retries # 0 /\ conf[c].retries \in Nat
    BY Typed DEF Fetched, CanAttempt, IInv
  <2>3. \A p \in Packages \ chunk[c] : mem'[c][p] = mem[c][p]
    BY <1>3, <1>6
  <2>4. \A p \in wanted[c] : answer'[c][p] # NoAnswer \/ p \in pending[c]
    BY <1>4, <1>6, <1>8, <2>2, Typed DEF IInv, AnsweredInv, NeverAsked
  <2>5. \A p \in pending[c] : mem'[c][p] = Unknown /\ ~conf[c].offline
    BY <2>3, Typed DEF IInv, AnsweredInv
  <2> QED
    <3> SUFFICES ASSUME NEW d \in Clients
                 PROVE  /\ pc'[d] \in {"chunk", "fetch", "save", "write", "done"} =>
                              \A p \in wanted[d] : \/ answer'[d][p] # NoAnswer
                                                   \/ NeverAsked(d, p)'
                                                   \/ p \in pending[d] \cup chunk'[d]
                        /\ \A p \in pending[d] \cup chunk'[d] : mem'[d][p] = Unknown /\ ~conf[d].offline
                        /\ pending[d] \cap chunk'[d] = {}
                        /\ pc'[d] # "fetch" => chunk'[d] = {} /\ attempt'[d] = 0
                        /\ pc'[d] \notin {"chunk", "fetch"} => pending[d] = {}
      BY <1>8 DEF AnsweredInv
    <3>1. CASE d = c
      BY <1>7, <2>4, <2>5, <3>1
    <3>2. CASE d # c
      <4>1. /\ mem'[d] = mem[d] /\ answer'[d] = answer[d] /\ chunk'[d] = chunk[d]
            /\ attempt'[d] = attempt[d] /\ pc'[d] = pc[d] /\ conf' = conf
        BY <1>7, <1>8, <2>1, <3>2
      <4> QED
        BY <4>1 DEF IInv, AnsweredInv, NeverAsked
    <3> QED
      BY <3>1, <3>2
<1> QED
  BY <1>9, <1>10, <1>11 DEF IInv

-----------------------------------------------------------------------------
\* The end of a run, the file, and the environment.

LEMMA FinishStep == ASSUME NEW c \in Clients, IInv, Finish(c) PROVE IInv'
<1>1. /\ pc[c] = "chunk" /\ pending[c] = {}
      /\ UNCHANGED <<published, disk, conf, mem, dirty, wanted, pending, chunk, attempt, answer, vouched>>
      /\ \A d \in Clients : /\ d # c => pc'[d] = pc[d]
                            /\ d = c => pc'[d] \in {"save", "done"}
      /\ pc' \in [Clients -> {"off", "lookup", "chunk", "fetch", "save", "write", "done"}]
  BY Typed DEF Finish, IInv
<1>2. TypeOK'
  BY <1>1 DEF IInv, TypeOK
<1>3. VouchedInv'
  BY <1>1 DEF IInv, VouchedInv
<1>4. AnsweredInv'
  BY <1>1 DEF IInv, AnsweredInv, NeverAsked
<1> QED
  BY <1>2, <1>3, <1>4 DEF IInv

\* The file is torn, kept, or holds the memory of the run that writes it.
LEMMA FileStep ==
    ASSUME NEW c \in Clients, IInv, pc[c] \in {"save", "write"}, NEW next \in {"write", "done"},
           pc' = [pc EXCEPT ![c] = next],
           disk' = disk \/ disk' = TornFile \/ disk' = [state |-> "whole", cache |-> mem[c]],
           UNCHANGED <<published, conf, mem, dirty, wanted, pending, chunk, attempt, answer, vouched>>
    PROVE  IInv'
<1>1. /\ \A d \in Clients : /\ d # c => pc'[d] = pc[d]
                            /\ d = c => pc'[d] \in {"write", "done"}
      /\ pc' \in [Clients -> {"off", "lookup", "chunk", "fetch", "save", "write", "done"}]
  BY Typed DEF IInv
<1>2. disk' \in [state: {"absent", "torn", "whole"}, cache: Caches]
      /\ \A p \in Packages : disk'.cache[p] = "clean" => p \in vouched
  BY Typed, CacheFacts DEF IInv, VouchedInv
<1>3. TypeOK'
  BY <1>1, <1>2 DEF IInv, TypeOK
<1>4. VouchedInv'
  BY <1>1, <1>2 DEF IInv, VouchedInv
<1>5. AnsweredInv'
  BY <1>1 DEF IInv, AnsweredInv, NeverAsked
<1> QED
  BY <1>3, <1>4, <1>5 DEF IInv

LEMMA StopStep == ASSUME NEW c \in Clients, IInv, Stop(c) PROVE IInv'
<1>1. /\ UNCHANGED <<published, disk, vouched>>
      /\ \A d \in Clients \ {c} : /\ pc'[d] = pc[d] /\ conf'[d] = conf[d] /\ mem'[d] = mem[d]
                                  /\ wanted'[d] = wanted[d] /\ pending'[d] = pending[d]
                                  /\ chunk'[d] = chunk[d] /\ attempt'[d] = attempt[d]
                                  /\ answer'[d] = answer[d]
      /\ pc'[c] = "off" /\ mem'[c] = NoCache /\ chunk'[c] = {} /\ attempt'[c] = 0
      /\ answer'[c] = Unanswered /\ pending'[c] = {}
  BY Typed DEF Stop, IInv
<1>2. TypeOK'
  <2>1. Cardinality({}) = 0
    BY FS_EmptySet
  <2>2. \A d \in Clients : /\ Cardinality(chunk'[d]) <= ChunkSize
                           /\ pc'[d] = "fetch" => attempt'[d] <= conf'[d].retries
    <3>1. Cardinality({}) <= ChunkSize
      BY <2>1, SizesAssumption
    <3>2. \A d \in Clients : /\ Cardinality(chunk[d]) <= ChunkSize
                             /\ pc[d] = "fetch" => attempt[d] <= conf[d].retries
      BY DEF IInv, TypeOK
    <3> QED
      BY <1>1, <3>1, <3>2
  <2>3. /\ mem' \in [Clients -> Caches] /\ answer' \in [Clients -> [Packages -> Answers]]
        /\ conf' \in [Clients -> Configs \cup {Default}]
    BY Typed, CacheFacts DEF Stop, IInv
  <2>4. /\ pc' \in [Clients -> {"off", "lookup", "chunk", "fetch", "save", "write", "done"}]
        /\ dirty' \in [Clients -> BOOLEAN] /\ attempt' \in [Clients -> Nat]
        /\ wanted' \in [Clients -> SUBSET Packages] /\ pending' \in [Clients -> SUBSET Packages]
        /\ chunk' \in [Clients -> SUBSET Packages]
    BY Typed DEF Stop, IInv
  <2> QED
    BY <1>1, <2>2, <2>3, <2>4 DEF IInv, TypeOK
<1>3. VouchedInv'
  <2>1. \A p \in Packages : Unanswered[p].entry # "clean"
    BY CacheFacts DEF Unanswered
  <2> QED
    BY <1>1, <2>1, CacheFacts DEF IInv, VouchedInv
<1>4. AnsweredInv'
  BY <1>1 DEF IInv, AnsweredInv, NeverAsked
<1> QED
  BY <1>2, <1>3, <1>4 DEF IInv

LEMMA PublishStep == ASSUME NEW p \in Packages, IInv, Publish(p) PROVE IInv'
<1>1. published' \in SUBSET Packages /\ UNCHANGED <<disk, clientVars, vouched>>
  BY Typed DEF Publish, IInv
<1>2. TypeOK'
  BY <1>1 DEF IInv, TypeOK, clientVars
<1>3. VouchedInv' /\ AnsweredInv'
  BY <1>1 DEF IInv, VouchedInv, AnsweredInv, NeverAsked, clientVars
<1> QED
  BY <1>2, <1>3 DEF IInv

-----------------------------------------------------------------------------

LEMMA InitLemma == Init => IInv
<1> SUFFICES ASSUME Init PROVE IInv
  OBVIOUS
<1>1. Cardinality({}) = 0
  BY FS_EmptySet
<1>2. TypeOK
  BY <1>1, CacheFacts, SizesAssumption DEF Init, TypeOK
<1>3. VouchedInv
  <2>1. \A p \in Packages : Unanswered[p].entry # "clean"
    BY CacheFacts DEF Unanswered
  <2> QED
    BY <2>1, CacheFacts DEF Init, VouchedInv
<1>4. AnsweredInv
  BY DEF Init, AnsweredInv
<1> QED
  BY <1>2, <1>3, <1>4 DEF IInv

LEMMA NextStep == IInv /\ [Next]_vars => IInv'
<1> SUFFICES ASSUME IInv, [Next]_vars PROVE IInv'
  OBVIOUS
<1>1. CASE UNCHANGED vars
  BY <1>1 DEF vars, clientVars, IInv, TypeOK, VouchedInv, AnsweredInv, NeverAsked
<1>2. ASSUME NEW c \in Clients, ClientStep(c) PROVE IInv'
  <2>1. CASE Truncate(c) \/ WriteCache(c) \/ SaveFails(c)
    BY <2>1, FileStep DEF Truncate, WriteCache, SaveFails
  <2>2. ASSUME NEW source \in {"error", "offline_fallback"}, Unreachable(c, source) PROVE IInv'
    BY <2>2, UnreachableStep
  <2> QED
    BY <1>2, <2>1, <2>2, LookUpStep, NextChunkStep, NoAttemptStep, FetchedStep, RefusedStep,
       FinishStep DEF ClientStep
<1> QED
  BY <1>1, <1>2, StartStep, StopStep, PublishStep DEF Next

\* The strengthened invariant holds in every state of runs that share the cache file.
THEOREM InductiveInvariant == Spec => []IInv
<1>1. Init => IInv
  BY InitLemma
<1>2. IInv /\ [Next]_vars => IInv'
  BY NextStep
<1> QED
  BY <1>1, <1>2, PTL DEF Spec

\* A batch never exceeds batch_chunk_size, and max_retries bounds the attempts.
THEOREM TypeCorrect == Spec => []TypeOK
<1>1. IInv => TypeOK
  BY DEF IInv
<1> QED
  BY <1>1, InductiveInvariant, PTL

\* query_packages calls a package free of advisories only on the word of a response, however
\* runs share, tear and reload the cache file.
THEOREM CleanIsVouched == Spec => []NoSilentClean
<1>1. IInv => NoSilentClean
  BY Typed DEF IInv, VouchedInv, NoSilentClean, Passed, Silent
<1> QED
  BY <1>1, InductiveInvariant, PTL

\* query_packages returns an entry for every name, unless it was not allowed one attempt.
THEOREM AllAnswered == Spec => []EveryPackageAnswered
<1>1. IInv => EveryPackageAnswered
  BY DEF IInv, AnsweredInv, EveryPackageAnswered
<1> QED
  BY <1>1, InductiveInvariant, PTL
=============================================================================
