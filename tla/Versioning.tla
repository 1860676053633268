----------------------------- MODULE Versioning -----------------------------
(***************************************************************************)
(* The dataset registry: VersioningService.register observes the artifacts *)
(* of the pipeline's stages, gives every new content a version that names  *)
(* its parent stage's current version, and replaces one JSON document.     *)
(* Registrars are processes (the DAG's task, the CLI, a dvc stage) that do *)
(* not lock the document; the stages and dvc change the artifacts.         *)
(***************************************************************************)
EXTENDS Naturals, Sequences

CONSTANTS
    Registrars,     \* processes that register versions
    Stages,         \* names of the versioned artifacts
    Order,          \* the stages in the order of the configuration
    Root,           \* the stage without a parent
    Parent,         \* the parent of every other stage
    Reporter,       \* the stage whose runs write the manifest a stage is
                    \* observed by (ingestion's manifest describes incoming)
    Statuses,       \* the statuses a stage's manifest may carry
    Restores,       \* bound: under which values of scheduled an artifact may
                    \* return to an earlier content
    ByBatch,        \* whether register may name an earlier batch
    MaxContent      \* bound: contents produced

ASSUME StagesAssumption ==
    /\ Root \in Stages
    /\ Parent \in [Stages \ {Root} -> Stages]
    /\ Reporter \in [Stages -> Stages]
    /\ Order \in Seq(Stages)
    /\ \A s \in Stages : \E n \in 1..Len(Order) : Order[n] = s

ASSUME ModeAssumption ==
    /\ Restores \subseteq BOOLEAN /\ ByBatch \in BOOLEAN
    /\ Statuses \subseteq {"SUCCESS", "PARTIAL_SUCCESS", "FAILED"}
    /\ MaxContent \in Nat

VARIABLES
    content,        \* what each artifact's directory holds; 0 is nothing
    basis,          \* the parent content each artifact was produced from
    usable,         \* runs that are not FAILED, oldest first, by stage
    last,           \* contents produced so far
    registry,       \* the registry document on disk
    temp,           \* the temporary document beside it
    proc,           \* what every registrar does
    scheduled       \* whether registration is of all stages at once, after
                    \* each has run on its parent's output, and none runs then

vars == <<content, basis, usable, last, registry, temp, proc, scheduled>>
artifacts == <<content, basis, usable, last, scheduled>>

NoFile == [state |-> "none", doc |-> <<>>]
Torn == [state |-> "torn", doc |-> <<>>]
Written(doc) == [state |-> "doc", doc |-> doc]

\* Version n of a stage is its base version with patch n - 1; 0 is none.
\* `input` is not in the document: it remembers what the artifact was
\* produced from when it was observed.
Unseen == [sum |-> 0, run |-> 0, status |-> "NONE", input |-> 0]
Idle == [pc |-> "idle", todo |-> <<>>, pos |-> 1,
         target |-> "temp", mixed |-> FALSE,
         obs |-> [s \in Stages |-> Unseen], doc |-> <<>>,
         current |-> [s \in Stages |-> 0]]

Init ==
    /\ content = [s \in Stages |-> 0]
    /\ basis = [s \in Stages |-> 0]
    /\ usable = [s \in Stages |-> <<>>]
    /\ last = 0
    /\ registry = NoFile
    /\ temp = NoFile
    /\ proc = [p \in Registrars |-> Idle]
    /\ scheduled \in BOOLEAN

Become(p, r) == proc' = [proc EXCEPT ![p] = r]
ResetOn(p) == Become(p, Idle)
Quiet == \A p \in Registrars : proc[p].pc \in {"idle", "done"}
ParentContent(s) == IF s = Root THEN 0 ELSE content[Parent[s]]
-----------------------------------------------------------------------------
(***************************************************************************)
(* The artifacts.                                                          *)
(***************************************************************************)

\* A stage runs: its directory changes, and unless it FAILED its manifest
\* becomes the newest usable one.
Produce(s, status) ==
    /\ last < MaxContent
    /\ s # Root => ParentContent(s) # 0
    /\ scheduled => Quiet
    /\ last' = last + 1
    /\ content' = [content EXCEPT ![s] = last + 1]
    /\ basis' = [basis EXCEPT ![s] = ParentContent(s)]
    /\ usable' = IF status = "FAILED" THEN usable
                 ELSE [usable EXCEPT ![s] =
                          Append(@, [run |-> last + 1, status |-> status,
                                     input |-> ParentContent(s)])]
    /\ UNCHANGED <<registry, temp, proc, scheduled>>

\* dvc checkout, or a generator run with an earlier seed, brings back bytes
\* the artifact had before; the newest manifest stays the newest.
Restore(s) ==
    /\ scheduled \in Restores
    /\ scheduled => Quiet
    /\ \E n \in 1..Len(usable[s]) :
          /\ usable[s][n].run # content[s]
          /\ content' = [content EXCEPT ![s] = usable[s][n].run]
          /\ basis' = [basis EXCEPT ![s] = usable[s][n].input]
    /\ UNCHANGED <<usable, last, registry, temp, proc, scheduled>>
-----------------------------------------------------------------------------
(***************************************************************************)
(* VersioningService.register.                                             *)
(***************************************************************************)

UpToDate == \A s \in Stages : content[s] # 0 /\ basis[s] = ParentContent(s)

\* register() of every stage in the configured order, or register(stage).
Start(p) ==
    /\ proc[p].pc \in {"idle", "done"}
    /\ scheduled => UpToDate
    /\ \E todo \in {Order} \cup (IF scheduled THEN {}
                                 ELSE {<<s>> : s \in Stages}) :
          Become(p, [Idle EXCEPT !.pc = "observe", !.todo = todo])
    /\ UNCHANGED <<artifacts, registry, temp>>

\* The manifests _latest may answer: the newest, or the newest of a batch.
Candidates(s) ==
    LET runs == usable[Reporter[s]]
    IN  {runs[n] : n \in IF ByBatch THEN 1..Len(runs)
                         ELSE {m \in 1..Len(runs) : m = Len(runs)}}

\* discover_artifact of the next stage: a manifest, and the checksum of the
\* whole directory as it is now.
Observe(p) ==
    LET r == proc[p]
        s == r.todo[r.pos]
    IN  /\ r.pc = "observe"
        /\ content[s] # 0
        /\ \E m \in Candidates(s) :
              Become(p, [r EXCEPT
                  !.obs[s] = [sum |-> content[s], run |-> m.run,
                              status |-> m.status, input |-> basis[s]],
                  !.pos = IF r.pos < Len(r.todo) THEN r.pos + 1 ELSE 1,
                  !.pc = IF r.pos < Len(r.todo) THEN "observe" ELSE "load"])
        /\ UNCHANGED <<artifacts, registry, temp>>

\* No artifact or no usable manifest: RegistryError, nothing was written.
ObserveFails(p) ==
    /\ proc[p].pc = "observe"
    /\ LET s == proc[p].todo[proc[p].pos]
       IN  content[s] = 0 \/ Candidates(s) = {}
    /\ ResetOn(p)
    /\ UNCHANGED <<artifacts, registry, temp>>

\* {name: item for item in entries if item is current}: the last one wins.
CurrentIn(doc, s) ==
    LET at == {n \in 1..Len(doc) : doc[n].name = s /\ doc[n].is_current}
    IN  IF at = {} THEN 0
        ELSE doc[CHOOSE n \in at : \A m \in at : m <= n].version

\* load_registry: an empty document if there is none, an error if it cannot
\* be parsed.
Load(p) ==
    /\ proc[p].pc = "load"
    /\ IF registry.state = "torn" THEN ResetOn(p)
       ELSE Become(p, [proc[p] EXCEPT
                !.pc = "register", !.doc = registry.doc,
                !.current = [s \in Stages |-> CurrentIn(registry.doc, s)]])
    /\ UNCHANGED <<artifacts, registry, temp>>

\* select_version: the first entry with this checksum, or the next version.
Matches(doc, s) == {n \in 1..Len(doc) : doc[n].name = s}
Known(doc, s, sum) == {n \in Matches(doc, s) : doc[n].sum = sum}
FirstKnown(doc, s, sum) ==
    CHOOSE n \in Known(doc, s, sum) : \A m \in Known(doc, s, sum) : n <= m
Greatest(doc, s) ==
    CHOOSE n \in Matches(doc, s) :
        \A m \in Matches(doc, s) : doc[m].version <= doc[n].version

\* A mutant: the patch is taken from the version before.
SelectOneBelow(doc, s, sum) ==
    IF Known(doc, s, sum) # {} THEN doc[FirstKnown(doc, s, sum)].version
    ELSE IF Matches(doc, s) # {} THEN doc[Greatest(doc, s)].version
    ELSE 0

SelectVersion(doc, s, sum) ==
    IF Known(doc, s, sum) # {} THEN doc[FirstKnown(doc, s, sum)].version
    ELSE IF Matches(doc, s) # {} THEN doc[Greatest(doc, s)].version + 1
    ELSE 1

\* registry_entry, with is_current set.
EntryOf(s, version, parent, o) ==
    [name |-> s, version |-> version, parent |-> parent, is_current |-> TRUE,
     sum |-> o.sum, run |-> o.run, status |-> o.status, input |-> o.input]

\* A mutant: the flags of the earlier entries are left alone.
SupersededNot(doc, s) == doc

\* The document without a current entry of stage s.
Superseded(doc, s) ==
    [n \in 1..Len(doc) |->
        IF doc[n].name = s THEN [doc[n] EXCEPT !.is_current = FALSE]
        ELSE doc[n]]

\* A mutant: a new content takes the place of the stage's first entry.
RegisteredInPlace(doc, s, parent, o) ==
    LET entry == EntryOf(s, SelectVersion(doc, s, o.sum), parent, o)
    IN  IF Matches(doc, s) = {} THEN Append(doc, entry)
        ELSE [doc EXCEPT ![CHOOSE n \in Matches(doc, s) :
                              \A m \in Matches(doc, s) : n <= m] = entry]

\* The document after stage s was observed as o, with the given parent: a new
\* content supersedes the stage's entries, a known one updates its own entry.
Registered(doc, s, parent, o) ==
    LET entry == EntryOf(s, SelectVersion(doc, s, o.sum), parent, o)
    IN  IF Known(doc, s, o.sum) = {} THEN Append(Superseded(doc, s), entry)
        ELSE [doc EXCEPT ![FirstKnown(doc, s, o.sum)] = entry]

\* A mutant: the parent is looked up on disk when the stage is registered.
RegisterDiskParent(p) ==
    LET r == proc[p]
        s == r.todo[r.pos]
        parent == IF s = Root THEN 0 ELSE CurrentIn(registry.doc, Parent[s])
    IN  /\ r.pc = "register"
        /\ Become(p, [r EXCEPT
              !.doc = Registered(r.doc, s, parent, r.obs[s]),
              !.current[s] = SelectVersion(r.doc, s, r.obs[s].sum),
              !.pos = IF r.pos < Len(r.todo) THEN r.pos + 1 ELSE 1,
              !.pc = IF r.pos < Len(r.todo) THEN "register" ELSE "open"])
        /\ UNCHANGED <<artifacts, registry, temp>>

\* One turn of register's loop, on the loaded document.
RegisterStage(p) ==
    LET r == proc[p]
        s == r.todo[r.pos]
        parent == IF s = Root THEN 0 ELSE r.current[Parent[s]]
    IN  /\ r.pc = "register"
        /\ Become(p, [r EXCEPT
              !.doc = Registered(r.doc, s, parent, r.obs[s]),
              !.current[s] = SelectVersion(r.doc, s, r.obs[s].sum),
              !.pos = IF r.pos < Len(r.todo) THEN r.pos + 1 ELSE 1,
              !.pc = IF r.pos < Len(r.todo) THEN "register" ELSE "open"])
        /\ UNCHANGED <<artifacts, registry, temp>>
-----------------------------------------------------------------------------
(***************************************************************************)
(* _write_json: every registrar uses the same temporary name.              *)
(***************************************************************************)

\* A mutant: the registry is written in place.
OpenInPlace(p) ==
    /\ proc[p].pc = "open"
    /\ registry' = Torn
    /\ temp' = Torn
    /\ Become(p, [proc[p] EXCEPT !.pc = "writing", !.target = "temp"])
    /\ UNCHANGED artifacts

\* write_text opens and truncates the temporary file; two registrars that
\* have it open at once may mix their bytes ...
OpenTemp(p) ==
    LET writers == {q \in Registrars :
                        proc[q].pc = "writing" /\ proc[q].target = "temp"}
    IN  /\ proc[p].pc = "open"
        /\ temp' = Torn
        /\ proc' = [q \in Registrars |->
               IF q = p THEN [proc[q] EXCEPT !.pc = "writing", !.target = "temp",
                                             !.mixed = writers # {}]
               ELSE IF q \in writers THEN [proc[q] EXCEPT !.mixed = TRUE]
               ELSE proc[q]]
        /\ UNCHANGED <<artifacts, registry>>

\* ... and fills the file it opened, which another registrar's rename has
\* perhaps made the registry, or a second rename nothing at all.
FinishWrite(p) ==
    LET r == proc[p]
    IN  /\ r.pc = "writing"
        /\ \E f \in {Written(r.doc)} \cup (IF r.mixed THEN {Torn} ELSE {}) :
              /\ temp' = IF r.target = "temp" THEN f ELSE temp
              /\ registry' = IF r.target = "registry" THEN f ELSE registry
        /\ Become(p, [Idle EXCEPT !.pc = "replace", !.todo = r.todo,
                                  !.obs = r.obs])
        /\ UNCHANGED artifacts

\* What a writer's open file is after a rename of the temporary file.
AfterRename(target) == IF target = "temp" THEN "registry" ELSE "unlinked"

\* temporary.replace(path): fails if another registrar renamed it already.
Replace(p) ==
    /\ proc[p].pc = "replace"
    /\ IF temp = NoFile
         THEN ResetOn(p) /\ UNCHANGED <<registry, temp>>
         ELSE /\ registry' = temp
              /\ temp' = NoFile
              /\ proc' = [q \in Registrars |->
                     IF q = p THEN [proc[q] EXCEPT !.pc = "done"]
                     ELSE IF proc[q].pc = "writing"
                          THEN [proc[q] EXCEPT !.target = AfterRename(@)]
                          ELSE proc[q]]
    /\ UNCHANGED artifacts

\* The process dies; a half-written file stays half-written.
Crash(p) ==
    /\ proc[p].pc \notin {"idle", "done"}
    /\ ResetOn(p)
    /\ UNCHANGED <<artifacts, registry, temp>>
-----------------------------------------------------------------------------
Next ==
    \/ \E s \in Stages, status \in Statuses : Produce(s, status)
    \/ \E s \in Stages : Restore(s)
    \/ \E p \in Registrars :
          \/ Start(p) \/ Observe(p) \/ ObserveFails(p) \/ Load(p)
          \/ RegisterStage(p) \/ OpenTemp(p) \/ FinishWrite(p) \/ Replace(p)
          \/ Crash(p)

Spec == Init /\ [][Next]_vars
-----------------------------------------------------------------------------
(***************************************************************************)
(* generate_lineage and verify, as functions of the document.              *)
(***************************************************************************)

Published == IF registry.state = "doc" THEN registry.doc ELSE <<>>

\* The entry the lineage takes for a stage; its node in the graph.
CurrentEntry(doc, s) ==
    CHOOSE n \in Matches(doc, s) :
        doc[n].is_current /\ doc[n].version = CurrentIn(doc, s)
HasCurrent(doc, s) == CurrentIn(doc, s) # 0

\* The stages whose edge of the lineage graph has no parent node: the parent
\* version a current entry names is not the parent's current version.
LineageErrors(doc) ==
    {s \in Stages \ {Root} :
        /\ HasCurrent(doc, s)
        /\ doc[CurrentEntry(doc, s)].parent \notin {0, CurrentIn(doc, Parent[s])}}

\* generate_lineage writes its report: no stage missing, no graph error.
LineageGenerated(doc) ==
    /\ \A s \in Stages : HasCurrent(doc, s)
    /\ LineageErrors(doc) = {}

\* verify() finds every current entry's checksum in its directory. (It also
\* looks for each entry's manifest and for the lineage document.)
Verified(doc) ==
    \A n \in 1..Len(doc) :
        doc[n].is_current => content[doc[n].name] = doc[n].sum
-----------------------------------------------------------------------------
(***************************************************************************)
(* Properties.                                                             *)
(***************************************************************************)

Usable == {"SUCCESS", "PARTIAL_SUCCESS"}
DocEntries ==
    [name : Stages, version : Nat \ {0}, parent : Nat, is_current : BOOLEAN,
     sum : Nat \ {0}, run : Nat \ {0}, status : Usable, input : Nat]
JsonFiles == [state : {"none", "torn", "doc"}, doc : Seq(DocEntries)]
Registrations ==
    [pc : {"idle", "observe", "load", "register", "open", "writing",
           "replace", "done"},
     todo : Seq(Stages), pos : Nat \ {0},
     target : {"temp", "registry", "unlinked"}, mixed : BOOLEAN,
     obs : [Stages -> [sum : Nat, run : Nat, status : Usable \cup {"NONE"},
                       input : Nat]],
     doc : Seq(DocEntries), current : [Stages -> Nat]]

\* Every variable has its type.
TypeOK ==
    /\ content \in [Stages -> Nat] /\ basis \in [Stages -> Nat]
    /\ usable \in [Stages -> Seq([run : Nat \ {0}, status : Usable,
                                  input : Nat])]
    /\ last \in Nat
    /\ registry \in JsonFiles /\ temp \in JsonFiles
    /\ proc \in [Registrars -> Registrations]
    /\ scheduled \in BOOLEAN

\* A version names one content and a content has one version: select_version
\* neither reuses a number nor numbers the same bytes twice, whatever two
\* registrars and dvc do to the document and the artifacts.
VersionsAreUnique ==
    \A m, n \in 1..Len(Published) :
        Published[m].name = Published[n].name /\ m # n =>
            /\ Published[m].version # Published[n].version
            /\ Published[m].sum # Published[n].sum

\* The parent version of an entry is a registered version of its parent stage.
ParentIsRegistered ==
    \A n \in 1..Len(Published) : Published[n].parent # 0 =>
        /\ Published[n].name # Root
        /\ \E m \in 1..Len(Published) :
              /\ Published[m].name = Parent[Published[n].name]
              /\ Published[m].version = Published[n].parent

\* A registered stage has exactly one entry marked is_current.
OneCurrent ==
    \A s \in Stages : Matches(Published, s) # {} =>
        \E n \in Matches(Published, s) :
            \A m \in Matches(Published, s) : Published[m].is_current <=> m = n

\* Registering all stages in order gives a lineage without errors, even when
\* stages run between the observation of one artifact and the next.
FullRegistrationGivesLineage ==
    \A p \in Registrars :
        proc[p].pc = "done" /\ proc[p].todo = Order =>
            LineageGenerated(Published)

\* If the artifacts are still what a full registration observed, verify()
\* succeeds on what it wrote.
FullRegistrationVerifies ==
    \A p \in Registrars :
        /\ proc[p].pc = "done" /\ proc[p].todo = Order
        /\ \A s \in Stages : content[s] = proc[p].obs[s].sum
        => Verified(Published)

\* The parent record of a current entry supplies the child's input checksum, if
\* all stages are registered together when they have run on each other's output.
ParentSuppliesInput ==
    scheduled => \A s \in Stages \ {Root} : HasCurrent(Published, s) =>
        LET e == Published[CurrentEntry(Published, s)]
        IN  \E n \in Matches(Published, Parent[s]) :
                /\ Published[n].version = e.parent
                /\ Published[n].sum = e.input

\* The document can be parsed once it was written.
RegistryIsReadable == registry.state # "torn"

\* Every registered version stays registered with its content, from one
\* readable document to the next.
HistoryIsRetained ==
    [][registry.state = "doc" /\ registry'.state = "doc" =>
       \A n \in 1..Len(Published) :
          \E m \in 1..Len(Published') :
              /\ Published'[m].name = Published[n].name
              /\ Published'[m].version = Published[n].version
              /\ Published'[m].sum = Published[n].sum]_vars
=============================================================================
