------------------------------- MODULE Build -------------------------------
(***************************************************************************)
(* `cosim build`: project.py writes the machine-owned make fragments, then *)
(* one parallel make lowers the design and builds the sim binary of every  *)
(* backend of one unit (mk/firtool.mk, mk/component.mk).                   *)
(*                                                                         *)
(* What a file holds is abstracted to what it was made from: a content     *)
(* gives, for each kind of source (Facets), the versions of that source    *)
(* that went into the file.  A file that mixes two versions of one source  *)
(* shows it.  Modification times are abstracted to the pairs <<p, t>> of a *)
(* prerequisite and a target in which p was written after t (newer).       *)
(*                                                                         *)
(* cosim.json reaches a binary along three paths: config.mk ("decl": the   *)
(* path, port regex, interfaces, backends and tools, the part of it that   *)
(* changes config.mk), cosim.json itself, which codegen reads again        *)
(* ("decl" and "freq", a clock's frequency), and the design ("logic", the  *)
(* registers of the RTL, and "ports", its boundary).                       *)
(***************************************************************************)
EXTENDS FiniteSets, Sequences, Integers

CONSTANTS BackendLists,  \* the values of design.supported_backends considered
          Editable,      \* the facets the user edits
          MaxEdits,      \* bound: edits of the sources
          Jobs,          \* make -j
          MaxFailures,   \* bound: recipes that fail of themselves
          CodegenFails,  \* may codegen be one of them?
          Absent,        \* a file that does not exist
          Broken         \* a file that was cut short, or made from one that was

Facets == {"logic", "ports", "decl", "freq"}

ASSUME BuildAssumption ==
  /\ Editable \subseteq Facets
  /\ MaxEdits \in Nat
  /\ Jobs \in Nat \ {0}
  /\ MaxFailures \in Nat /\ CodegenFails \in BOOLEAN
  /\ BackendLists \subseteq Seq({"arcilator", "verilator"}) \ {<<>>}

VARIABLES src,      \* version of each facet in the user's files
          backends, \* design.supported_backends
          file,     \* content of every file of the build
          newer,    \* pairs <<prerequisite, target>>, the first written later
          make,     \* "off", "on", or "failing": waiting for unfinished jobs
          job,      \* state of each rule in the make that runs
          due,      \* the codegen rules make has found out of date
          got,      \* what a running recipe has read
          emitted,  \* files a running codegen still has to write
          ok,       \* the last build succeeded and nothing was edited since
          failures  \* recipes that failed

vars == <<src, backends, file, newer, make, job, due, got, emitted, ok, failures>>

----------------------------------------------------------------------------
(* The rules of firtool.mk and component.mk. *)

SetOf(s) == {s[i] : i \in 1..Len(s)}
Backends == {"arcilator", "verilator"}
First == backends[1]
State(b) == IF b = "arcilator" THEN "stateA" ELSE "stateV"
Sim(b) == IF b = "arcilator" THEN "simA" ELSE "simV"

Targets ==
  [lower |-> {"design"},
   extractA |-> {"hwA"}, arcilate |-> {"libA", "stateA"}, genArc |-> {"genA"},
   compileGen |-> {"genobj"}, compileA |-> {"simoA"}, linkA |-> {"simA"},
   extractV |-> {"hwV", "stateV"}, split |-> {"vsrc"}, verilate |-> {"libV"},
   compileV |-> {"simoV"}, linkV |-> {"simV"},
   genSim |-> {"simcpp"}]

Rules == DOMAIN Targets

\* Prerequisites make knows of, by the first backend, which generates sim.cpp;
\* `unit` are those of the two extractions, `wrapped` those of arcilator's sim.o.
PrerequisiteTable(unit, wrapped) ==
  [b \in Backends |->
    [lower |-> {"input"},
     extractA |-> unit, arcilate |-> {"hwA"}, genArc |-> {"stateA"},
     compileGen |-> {"genA"}, compileA |-> wrapped, linkA |-> {"simoA", "genobj", "libA"},
     extractV |-> unit, split |-> {"hwV"}, verilate |-> {"vsrc"},
     compileV |-> {"simcpp", "libV"}, linkV |-> {"simoV", "libV"},
     genSim |-> {State(b)}]]

\* Mutants: cosim.json's make fragment is not a prerequisite of the extraction;
\* the arcilator sim.o does not wait for the wrapper it includes.
PrerequisitesNoConfig == PrerequisiteTable({"design"}, {"simcpp", "genA"})
PrerequisitesNoWrapper == PrerequisiteTable({"design", "config"}, {"simcpp"})

Prerequisites == PrerequisiteTable({"design", "config"}, {"simcpp", "genA"})

Needs(r) == Prerequisites[First][r]

\* The rules that make what r needs; those of a unit belong to a sub-make that
\* starts when the design is lowered.
Feeding(b, r) == {q \in Rules : Targets[q] \cap Prerequisites[b][r] # {}} \cup ({"lower"} \ {r})

\* The rules make has to be through with before r: the least set that holds those
\* feeding r and is closed under Feeding.
Before ==
  [b \in Backends |->
    LET closed == {S \in SUBSET Rules : \A s \in S : Feeding(b, s) \subseteq S}
    IN [r \in Rules |-> {q \in Rules : \A S \in closed : Feeding(b, r) \subseteq S => q \in S}]]

\* What the recipes read besides.
Reads(r) == Needs(r) \cup CASE r = "compileA" -> {"wrapper"}   \* #include "A<Model>.h"
                           [] r \in {"genArc", "genSim"} -> {"json"}   \* --config
                           [] OTHER -> {}

Codegen == {"genArc", "genSim"}
Compilers == {"compileGen", "compileA", "compileV"}
Linkers == {"linkA", "linkV"}

\* Files codegen writes, in order.
Emits(r) == IF r = "genArc" \/ First = "arcilator"
            THEN <<"genA", "wrapper", "simcpp">> ELSE <<"simcpp">>

BackendRules(b) ==
  IF b = "arcilator"
  THEN {"extractA", "arcilate", "genArc", "compileGen", "compileA", "linkA"}
  ELSE {"extractV", "split", "verilate", "compileV", "linkV"}

\* The rules `make all` reaches; sim.cpp may need the state of the first backend.
Reached == {"lower", "genSim"} \cup UNION {BackendRules(b) : b \in SetOf(backends)}

Built == {"wrapper"} \cup UNION {Targets[r] : r \in Rules}
Sources == {"input", "json"}
Files == Sources \cup {"config"} \cup Built

----------------------------------------------------------------------------
(* Contents. *)

Versions == 0..MaxEdits
Content == [Facets -> SUBSET Versions]

\* A file that is missing or was cut short holds no content.
ASSUME MarksAssumption == Absent # Broken /\ {Absent, Broken} \cap Content = {}

Holding(facets) == [f \in Facets |-> IF f \in facets THEN {src[f]} ELSE {}]
Project(c, facets) == [f \in Facets |-> IF f \in facets THEN c[f] ELSE {}]
Merge(cs) == [f \in Facets |-> UNION {c[f] : c \in cs}]

SourceContent(f) == Holding(IF f = "input" THEN {"logic", "ports"} ELSE {"decl", "freq"})

\* Mutant: sim.cpp and the wrapper tell the size of the state as well.
CarriesLayout(f) == {"logic", "ports", "decl"} \cup IF f = "simcpp" THEN {"freq"} ELSE {}

\* sim.cpp and the wrapper tell ports and interfaces, not registers; the header
\* and gen-arc-<name>.cpp tell the layout of the state, not the interfaces' clocks.
Carries(f) == CASE f = "simcpp" -> {"ports", "decl", "freq"}
                [] f = "wrapper" -> {"ports", "decl"}
                [] f = "genA" -> {"logic", "ports", "decl"}

\* What a recipe makes of what it reads.
Product(r) == LET inputs == {file[f] : f \in Reads(r)}
              IN IF inputs \cap {Absent, Broken} # {} THEN Broken ELSE Merge(inputs)

\* The pairs whose order in time some rule depends on.
Edges == UNION {UNION {Prerequisites[b][r] \X Targets[r] : r \in Rules} : b \in Backends}

\* newer after the files of fs were written.
Touch(fs) == {e \in newer : e[2] \notin fs}
             \cup {e \in Edges : e[1] \in fs /\ e[2] \notin fs}

\* newer after the files of fs were removed.
Forget(fs) == {e \in newer : e[1] \notin fs /\ e[2] \notin fs}

----------------------------------------------------------------------------
Init ==
  /\ src = [f \in Facets |-> 0]
  /\ backends \in BackendLists
  /\ file = [f \in Files |-> IF f \in Sources THEN SourceContent(f) ELSE Absent]
  /\ newer = {}
  /\ make = "off"
  /\ job = [r \in Rules |-> "idle"]
  /\ due = {}
  /\ got = [r \in Rules |-> Absent]
  /\ emitted = [r \in Codegen |-> <<>>]
  /\ ok = FALSE
  /\ failures = 0

NoJob == UNCHANGED <<make, job, due, got, emitted, failures>>

Edited == src["logic"] + src["ports"] + src["decl"] + src["freq"]

\* The user edits the design or cosim.json between two builds.
Edit(f) ==
  /\ make = "off" /\ f \in Editable /\ Edited < MaxEdits
  /\ src' = [src EXCEPT ![f] = @ + 1]
  /\ file' = [file EXCEPT !["input"] = SourceContent("input")',
                          !["json"] = SourceContent("json")']
  /\ newer' = IF f \in {"logic", "ports"} THEN Touch({"input"}) ELSE newer
  /\ ok' = FALSE
  /\ UNCHANGED backends /\ NoJob

\* The user edits design.supported_backends, a line of config.mk.
EditBackends(list) ==
  /\ make = "off" /\ "decl" \in Editable /\ Edited < MaxEdits
  /\ list # backends /\ backends' = list
  /\ src' = [src EXCEPT !["decl"] = @ + 1]
  /\ file' = [file EXCEPT !["json"] = SourceContent("json")']
  /\ ok' = FALSE
  /\ UNCHANGED newer /\ NoJob

OutOfDate(r) == \E t \in Targets[r] :
                  file[t] = Absent \/ \E p \in Needs(r) : <<p, t>> \in newer

OutdatedCodegen == {r \in Codegen \cap Reached : OutOfDate(r)}

\* Mutant: a plain write_text, which writes in any case.
DiffersAlways(f, text) == TRUE

\* _write_if_changed: is the file to be written?
Differs(f, text) == file[f] # text

\* project.build up to the call of make.
Start ==
  LET config == Holding({"decl"}) IN
  /\ make = "off" /\ make' = "on"
  /\ file' = [file EXCEPT !["config"] = config]
  /\ newer' = IF Differs("config", config) THEN Touch({"config"}) ELSE newer
  /\ job' = [r \in Rules |-> IF r \in Reached THEN "waiting" ELSE "idle"]
  /\ ok' = FALSE
  /\ UNCHANGED <<src, backends, got, emitted, failures>>
  /\ due' = OutdatedCodegen'

Running == {r \in Rules : job[r] = "running"}

\* Make looks at a target's time once, before the jobs that the target waits for:
\* what another rule's codegen writes meanwhile does not count.
Due(r) == IF r \in Codegen THEN r \in due ELSE OutOfDate(r)

\* Make has nothing left to do for r itself.
Settled(r) == job[r] = "done" \/ (job[r] = "waiting" /\ ~Due(r))

Ready(r) ==
  /\ make = "on" /\ job[r] = "waiting" /\ Due(r)
  /\ \A q \in Before[First][r] : Settled(q)

\* Make looks at gen-arc-<name>.cpp later than at sim.cpp, and the codegen of
\* sim.cpp may have written it by then.
Skip ==
  /\ Ready("genArc") /\ ~OutOfDate("genArc")
  /\ job' = [job EXCEPT !["genArc"] = "done"]
  /\ UNCHANGED <<src, backends, file, newer, make, due, got, emitted, ok, failures>>

\* The recipe of a tool.  What it reads does not change while it runs, so it is
\* one step; the linker, like the other tools, rejects a broken input.
Run(r) ==
  /\ r \notin Codegen \cup Compilers
  /\ Ready(r) /\ Cardinality(Running) < Jobs /\ Product(r) # Broken
  /\ file' = [f \in Files |-> IF f \in Targets[r] THEN Product(r) ELSE file[f]]
  /\ newer' = Touch(Targets[r])
  /\ job' = [job EXCEPT ![r] = "done"]
  /\ UNCHANGED <<src, backends, make, got, emitted, ok, failures>>
  /\ due' = due \cup OutdatedCodegen'

\* Compilers and codegen start, and read: sim.cpp may have two writers.
Launch(r) ==
  /\ r \in Codegen \cup Compilers
  /\ Ready(r) /\ Cardinality(Running) < Jobs
  /\ job' = [job EXCEPT ![r] = "running"]
  /\ got' = [got EXCEPT ![r] = Product(r)]
  /\ emitted' = IF r \in Codegen THEN [emitted EXCEPT ![r] = Emits(r)] ELSE emitted
  /\ UNCHANGED <<src, backends, file, newer, make, due, ok, failures>>

\* A compiler ends; it may accept a file that was cut short (an empty one
\* compiles).
Finish(r) ==
  /\ job[r] = "running" /\ r \in Compilers
  /\ file' = [f \in Files |-> IF f \in Targets[r] THEN got[r] ELSE file[f]]
  /\ newer' = Touch(Targets[r])
  /\ job' = [job EXCEPT ![r] = "done"]
  /\ got' = [got EXCEPT ![r] = Absent]
  /\ UNCHANGED <<src, backends, make, due, emitted, ok, failures>>

\* Codegen writes one file after the other; `emitted` starts with the stage of the
\* file it is at: "changed" when its text was compared and differs, "open" when
\* write_text has truncated the file.
Stage(r) == IF emitted[r] = <<>> THEN "ended"
            ELSE IF Head(emitted[r]) \in {"changed", "open"} THEN Head(emitted[r])
            ELSE "next"

Emitting(r, stage) == r \in Codegen /\ job[r] = "running" /\ Stage(r) = stage

\* The text of file f, and the one codegen r would give it.
Text(r, f) == Project(got[r], Carries(f))

\* _write_if_changed: nothing is written when the text is the same ...
EmitSame(r) ==
  /\ Emitting(r, "next") /\ ~Differs(Head(emitted[r]), Text(r, Head(emitted[r])))
  /\ emitted' = [emitted EXCEPT ![r] = Tail(@)]
  /\ UNCHANGED <<src, backends, file, newer, make, job, due, got, ok, failures>>

EmitChanged(r) ==
  /\ Emitting(r, "next") /\ Differs(Head(emitted[r]), Text(r, Head(emitted[r])))
  /\ emitted' = [emitted EXCEPT ![r] = <<"changed">> \o @]
  /\ UNCHANGED <<src, backends, file, newer, make, job, due, got, ok, failures>>

\* ... otherwise write_text truncates the file ...
EmitOpen(r) ==
  /\ Emitting(r, "changed")
  /\ file' = [file EXCEPT ![emitted[r][2]] = Broken]
  /\ newer' = Touch({emitted[r][2]})
  /\ emitted' = [emitted EXCEPT ![r][1] = "open"]
  /\ UNCHANGED <<src, backends, make, job, due, got, ok, failures>>

\* ... and then writes it.
EmitWrite(r) ==
  /\ Emitting(r, "open")
  /\ file' = [file EXCEPT ![emitted[r][2]] = Text(r, emitted[r][2])]
  /\ newer' = Touch({emitted[r][2]})
  /\ emitted' = [emitted EXCEPT ![r] = Tail(Tail(@))]
  /\ UNCHANGED <<src, backends, make, job, due, got, ok, failures>>

EmitDone(r) ==
  /\ Emitting(r, "ended")
  /\ job' = [job EXCEPT ![r] = "done"]
  /\ got' = [got EXCEPT ![r] = Absent]
  /\ UNCHANGED <<src, backends, file, newer, make, due, emitted, ok, failures>>

\* A recipe fails.  Arcilator and cosim-extract may have written their state file
\* by then, and no more; codegen fails between two files.
\* Make starts no further recipe.
Fail(r) ==
  LET broken == IF job[r] = "running" THEN got[r] = Broken
                ELSE Product(r) = Broken IN
  /\ \/ job[r] = "running" /\ (r \in Codegen => CodegenFails /\ Stage(r) = "next")
     \/ r \notin Codegen \cup Compilers /\ Ready(r) /\ Cardinality(Running) < Jobs
  /\ broken \/ failures < MaxFailures
  /\ failures' = IF broken THEN failures ELSE failures + 1
  /\ \E written \in {{}, Targets[r] \cap {"stateA", "stateV"}} :
       /\ broken \/ Targets[r] = written => written = {}
       /\ file' = [f \in Files |-> IF f \in written THEN Product(r) ELSE file[f]]
       /\ newer' = Touch(written)
  /\ make' = "failing"
  /\ job' = [q \in Rules |-> IF q = r \/ job[q] = "waiting" THEN "idle" ELSE job[q]]
  /\ got' = [got EXCEPT ![r] = Absent]
  /\ emitted' = IF r \in Codegen THEN [emitted EXCEPT ![r] = <<>>] ELSE emitted
  /\ UNCHANGED <<src, backends, due, ok>>

\* Make ends; project.build raises when it failed.
End ==
  /\ make # "off" /\ Running = {}
  /\ make = "on" => \A r \in Reached : Settled(r)
  /\ make' = "off" /\ ok' = (make = "on")
  /\ job' = [r \in Rules |-> "idle"] /\ due' = {}
  /\ UNCHANGED <<src, backends, file, newer, got, emitted, failures>>

\* `cosim clean` keeps what codegen wrote next to the user's own files.
Clean(all) ==
  LET kept == IF all THEN Sources ELSE Sources \cup {"genA", "wrapper", "simcpp"} IN
  /\ make = "off"
  /\ file' = [f \in Files |-> IF f \in kept THEN file[f] ELSE Absent]
  /\ newer' = Forget(Files \ kept)
  /\ ok' = FALSE
  /\ UNCHANGED <<src, backends, failures>> /\ NoJob

RuleStep(r) == \/ Run(r) \/ Launch(r) \/ Finish(r) \/ Fail(r) \/ EmitSame(r)
               \/ EmitChanged(r) \/ EmitOpen(r) \/ EmitWrite(r) \/ EmitDone(r)

Next == \/ \E f \in Facets : Edit(f)
        \/ \E list \in BackendLists : EditBackends(list)
        \/ Start \/ Skip
        \/ \E r \in Rules : RuleStep(r)
        \/ End
        \/ \E all \in BOOLEAN : Clean(all)

Spec == Init /\ [][Next]_vars

----------------------------------------------------------------------------
\* What the user's files are at, what each file was made from, and what make and
\* its jobs are doing; sim.cpp and the wrapper hold nothing of the registers, so
\* that an edit of the logic alone writes neither of them again.
TypeOK ==
  /\ src \in [Facets -> Versions]
  /\ backends \in BackendLists
  /\ DOMAIN file = Files
  /\ \A f \in Files : file[f] \in {Absent, Broken} \/ file[f] \in Content
  /\ \A f \in {"simcpp", "wrapper"} : file[f] \in Content => file[f]["logic"] = {}
  /\ newer \subseteq Edges
  /\ make \in {"off", "on", "failing"}
  /\ job \in [Rules -> {"idle", "waiting", "running", "done"}]
  /\ due \subseteq Codegen
  /\ ok \in BOOLEAN

\* After a build that succeeded, and until the next edit, the sim binary of
\* every backend is made from the present design and the present cosim.json.
BuildIsCurrent == ok => \A b \in SetOf(backends) : file[Sim(b)] = Holding(Facets)

\* Whatever builds failed before: no sim binary mixes two versions of a source
\* (a wrapper or a header of one design linked with the model of another).
OneDesign == \A b \in Backends :
               file[Sim(b)] \in Content =>
                 \A f \in Facets : Cardinality(file[Sim(b)][f]) = 1

\* A build extracts a unit again only if an output is missing or not current.
NoNeedlessWork ==
  [][\A r \in {"extractA", "extractV"} :
       job[r] = "waiting" /\ job'[r] = "done" =>
         \E t \in Targets[r] : file[t] # Holding({"logic", "ports", "decl"})]_vars

\* project.py:155-158: edits of cosim.json always take effect.
EditsTakeEffect == BuildIsCurrent

=============================================================================
