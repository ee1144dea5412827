---------------------------- MODULE ModelingStages ----------------------------
(***************************************************************************)
(* The five stages of internal/modeling as functions from the artifacts of *)
(* the earlier stages and one model reply or tool result to drafts, run    *)
(* over one project: plan, extract, infer, emit, verify, with the register *)
(* map (RegIR) they hand on.  ModelingPipeline has the concurrency and the *)
(* files of a run; here a run is one step and its contents are kept.       *)
(*                                                                         *)
(* Abstractions.  A name stands for its case-folded identity.  Prose       *)
(* (descriptions, effects, notes) is kept as "there is some"; its length   *)
(* only as `long`, a map that encodes to more than maxSourceBytes.  Sizes  *)
(* are bytes, a field lies in bits.  Bus, C syntax and prompt texts are    *)
(* left out; 64-bit integers wrap at Word, signed ones at Half.  A reply   *)
(* is any value of the type RegIR, as Normalize leaves it.                 *)
(***************************************************************************)
EXTENDS Integers, Sequences, SequencesExt, FiniteSets

CONSTANTS
    ExtractReplies,   \* what the model may answer to extract: maps, and Garbage
    InferReplies,     \* and to infer
    Garbage,          \* a reply that does not decode
    Outputs,          \* what a verify command may print; see Marks
    Unknown,          \* a reset value the document does not state
    NoArtifact,
    Half,             \* 2^63
    MaxRegisters,     \* maxRegisters
    MaxIRQs,          \* maxIRQs
    AutoApply,        \* QEMU_AGENT_MODELING_AUTO_APPLY
    MaxRuns           \* bound: stage runs and resets

ASSUME BoundsAssumption ==
    /\ MaxRegisters \in Nat \ {0} /\ MaxIRQs \in Nat \ {0} /\ MaxRuns \in Nat
    /\ Half \in Nat /\ Half > 64 /\ AutoApply \in BOOLEAN

Word == 2 * Half

Integer == -Half..Half - 1

(***************************************************************************)
(* RegIR: what the model's JSON decodes to                                 *)
(***************************************************************************)
Field == [name: STRING, bit: Integer, width: Integer]

Register == [name: STRING, offset: 0..Word - 1, width: Nat, access: STRING,
             reset: Nat \union {Unknown}, fields: Seq(Field), effect: BOOLEAN]

RegIR == [device: STRING, mmio: 0..Word - 1, registers: Seq(Register), irqs: Seq(Int),
          notes: BOOLEAN, long: BOOLEAN]

\* What a verify command did: whether its directory was there, the exit markers it
\* printed itself, its exit code, and whether the tool cut its output.
Output == [entered: BOOLEAN, printed: Seq(Nat), code: Nat, cut: BOOLEAN]

ASSUME RepliesAssumption ==
    /\ ExtractReplies \union InferReplies \subseteq RegIR \union {Garbage}
    /\ Outputs \subseteq Output

VARIABLES
    current,    \* Project.Current, its index in StageOrder
    status,     \* Project.Status; a run is one step, so never "running"
    lastError,  \* Project.LastError
    artifacts,  \* Project.Artifacts with the contents: stage -> drafts in order
    ran,        \* history: the commands of the run whose report is on file
    runs        \* bound on the behaviour

vars == <<current, status, lastError, artifacts, ran, runs>>

plan == 1
extract == 2
infer == 3
emit == 4
verify == 5
StageOrder == 1..5

Draft(name, kind, body) == [name |-> name, kind |-> kind, body |-> body]

(***************************************************************************)
(* RegIR.Validate                                                          *)
(***************************************************************************)

\* Unsigned arithmetic on operands below Word, and a signed sum of two that are not
\* negative.
Plus(x, y) == IF x + y < Word THEN x + y ELSE x + y - Word
Minus(x, y) == IF x >= y THEN x - y ELSE x - y + Word
SignedPlus(x, y) == IF x + y < Half THEN x + y ELSE x + y - Word

Span(start, size) == [start |-> start, end |-> Plus(start, size)]

\* sort.Slice by start.
SortedBy(p, spans) ==
    \A i, j \in 1..Len(spans) : i < j => spans[p[i]].start <= spans[p[j]].start

\* Mutant of Disjoint: only two spans at one start collide.
DisjointStarts(spans) ==
    \E p \in Bijection(1..Len(spans), 1..Len(spans)) :
        /\ SortedBy(p, spans)
        /\ \A i \in 1..Len(spans) - 1 : spans[p[i + 1]].start > spans[p[i]].start

\* Sort by start, then compare neighbours.  The sort is not stable; where starts are
\* equal an order that passes is enough, and it makes a difference only to a span
\* whose end wraps.
Disjoint(spans) ==
    \E p \in Bijection(1..Len(spans), 1..Len(spans)) :
        /\ SortedBy(p, spans)
        /\ \A i \in 1..Len(spans) - 1 : spans[p[i + 1]].start >= spans[p[i]].end

Distinct(keys) == \A i, j \in 1..Len(keys) : keys[i] = keys[j] => i = j

Fits(reset, width) == reset = Unknown \/ reset < 2 ^ (8 * width)

\* bit + width is signed: it wraps for a field far above the register.
ValidFields(reg) ==
    /\ \A i \in 1..Len(reg.fields) :
           LET f == reg.fields[i]
           IN  f.width >= 1 /\ f.bit >= 0 /\ SignedPlus(f.bit, f.width) <= 8 * reg.width
    /\ Distinct([i \in 1..Len(reg.fields) |-> reg.fields[i].name])
    /\ Disjoint([i \in 1..Len(reg.fields) |->
                    Span(reg.fields[i].bit, reg.fields[i].width)])

\* mmioSize - size is unsigned: it wraps when the register is wider than the window.
ValidRegister(reg, mmio) ==
    /\ reg.width \in {1, 2, 4, 8}
    /\ reg.offset % reg.width = 0
    /\ reg.offset <= Minus(mmio, reg.width)
    /\ Fits(reg.reset, reg.width)
    /\ ValidFields(reg)

Validate(ir) ==
    /\ \E k \in 0..ir.mmio : ir.mmio = 2 ^ k
    /\ Len(ir.registers) \in 1..MaxRegisters
    /\ \A i \in 1..Len(ir.registers) : ValidRegister(ir.registers[i], ir.mmio)
    /\ Distinct([i \in 1..Len(ir.registers) |-> ir.registers[i].name])
    /\ Disjoint([i \in 1..Len(ir.registers) |->
                    Span(ir.registers[i].offset, ir.registers[i].width)])
    /\ Len(ir.irqs) <= MaxIRQs
    /\ \A i \in 1..Len(ir.irqs) : ir.irqs[i] \in 0..MaxIRQs - 1
    /\ Distinct(ir.irqs)

(***************************************************************************)
(* What a stage reads                                                      *)
(***************************************************************************)

\* Where the earlier stages have drafts of a kind, and which comes later.
Places(kind, s) ==
    UNION {{<<t, i>> : i \in {j \in 1..Len(artifacts[t]) : artifacts[t][j].kind = kind}} :
              t \in 1..s - 1}

Later(p, q) == p[1] > q[1] \/ (p[1] = q[1] /\ p[2] >= q[2])

Body(place) == artifacts[place[1]][place[2]].body

\* Mutant of FindStageArtifact: the first one.
FindFirstArtifact(kind, s) ==
    LET places == Places(kind, s)
    IN  IF places = {} THEN NoArtifact
        ELSE Body(CHOOSE p \in places : \A q \in places : Later(q, p))

\* The latest draft of a kind among the earlier stages, whatever its name.
FindStageArtifact(kind, s) ==
    LET places == Places(kind, s)
    IN  IF places = {} THEN NoArtifact
        ELSE Body(CHOOSE p \in places : \A q \in places : Later(p, q))

\* loadRegIR reads maxSourceBytes + 1 bytes: a longer map does not decode.
CanLoad(s) ==
    LET ir == FindStageArtifact("regir", s)
    IN  ir # NoArtifact /\ ~ir.long /\ Validate(ir)

LoadError(s) ==
    IF FindStageArtifact("regir", s) = NoArtifact THEN "stage_unavailable" ELSE "schema_invalid"

(***************************************************************************)
(* Infer: the no-rewrite rule                                              *)
(***************************************************************************)

\* Mutant of MergeRegister: a stated reset value is taken over the extracted one.
MergeRegisterOver(target, candidate) ==
    [target EXCEPT
        !.reset = IF candidate.reset # Unknown /\ Fits(candidate.reset, target.width)
                  THEN candidate.reset ELSE @,
        !.effect = @ \/ candidate.effect,
        !.fields = IF @ = <<>> THEN candidate.fields ELSE @]

\* Fill the holes of one register.
MergeRegister(target, candidate) ==
    [target EXCEPT
        !.reset = IF @ = Unknown /\ Fits(candidate.reset, target.width)
                  THEN candidate.reset ELSE @,
        !.effect = @ \/ candidate.effect,
        !.fields = IF @ = <<>> THEN candidate.fields ELSE @]

\* A candidate the map does not have, or at another offset or width, is dropped.
MergeCandidate(registers, candidate) ==
    [i \in 1..Len(registers) |->
        IF /\ candidate.name = registers[i].name
           /\ candidate.offset = registers[i].offset
           /\ candidate.width = registers[i].width
        THEN MergeRegister(registers[i], candidate) ELSE registers[i]]

\* What mergeRegister and mergeInferred leave a note about.
Refused(base, proposal) ==
    \/ proposal.device # base.device \/ proposal.mmio # base.mmio
    \/ \E i \in 1..Len(proposal.registers) :
           LET c == proposal.registers[i]
           IN  ~\E j \in 1..Len(base.registers) :
                  LET t == base.registers[j]
                  IN  /\ c.name = t.name /\ c.offset = t.offset /\ c.width = t.width
                      /\ c.access = t.access /\ Fits(c.reset, t.width)
                      /\ t.reset # Unknown /\ c.reset # Unknown => c.reset = t.reset
    \/ /\ base.irqs # <<>>
       /\ ~(ToSet(proposal.irqs) \subseteq ToSet(base.irqs))

MergeInferred(base, proposal) ==
    [base EXCEPT
        !.registers = FoldLeft(MergeCandidate, base.registers, proposal.registers),
        !.irqs = IF @ = <<>> THEN proposal.irqs ELSE @,
        !.notes = @ \/ proposal.notes \/ Refused(base, proposal),
        !.long = @ \/ proposal.long]

(***************************************************************************)
(* Drafts                                                                  *)
(***************************************************************************)

Registers(ir) == ToSet(ir.registers)

\* OpenQuestions: the readable registers without a reset value, and the rest.
OpenQuestions(ir) ==
    [resets |-> {r.name : r \in {q \in Registers(ir) :
                     q.reset = Unknown /\ q.access \notin {"wo", "rsvd"}}},
     others |-> \/ ir.irqs = <<>> \/ ir.notes
                \/ \E r \in Registers(ir) :
                      r.access = "rw" /\ ~r.effect /\ r.fields = <<>>]

MapDrafts(ir) ==
    LET asked == OpenQuestions(ir)
    IN  <<Draft("reg-ir.json", "regir", ir)>>
        \o IF asked.resets = {} /\ ~asked.others THEN <<>>
           ELSE <<Draft("open-questions.md", "plan", asked)>>

\* decodeStrict, behind stripFence.
Decodes(reply) == reply # Garbage

RawDraft == <<Draft("raw-model-output.txt", "evidence", Garbage)>>

\* Macros, state and accessors: where a register lies.
Placed(ir) ==
    {[name |-> r.name, offset |-> r.offset, width |-> r.width] : r \in Registers(ir)}

\* The reset handler assigns what is documented and marks the rest TODO.
Documented(ir) == {<<r.name, r.reset>> : r \in {q \in Registers(ir) : q.reset # Unknown}}
Todo(ir) == {r.name : r \in {q \in Registers(ir) : q.reset = Unknown}}

Render(ir) ==
    [device |-> ir.device, registers |-> Placed(ir),
     documented |-> Documented(ir), todo |-> Todo(ir)]

EmitDrafts(ir) ==
    LET code == Render(ir)
    IN  <<Draft("device.c", "code", code), Draft("meson.build.fragment", "plan", code),
          Draft("Kconfig.fragment", "plan", code), Draft("apply-manifest.json", "plan", code),
          Draft("device.diff", "diff", code)>>

(***************************************************************************)
(* Transitions of the project (type.go), with contents for references      *)
(***************************************************************************)

Run(s) ==
    /\ runs < MaxRuns /\ runs' = runs + 1
    /\ s = current

Record(s, drafts) ==
    artifacts' = [t \in StageOrder |->
                     IF t < s THEN artifacts[t] ELSE IF t = s THEN drafts ELSE <<>>]

Complete(s, drafts) ==
    /\ Record(s, drafts)
    /\ current' = IF s = verify THEN s ELSE s + 1
    /\ status' = IF s = verify THEN "done" ELSE "pending"
    /\ lastError' = "none"

Hold(s, drafts, reason) ==
    /\ Record(s, drafts)
    /\ current' = s /\ status' = "blocked" /\ lastError' = reason

FailWith(s, evidence, category) ==
    /\ artifacts' = [artifacts EXCEPT ![s] = @ \o evidence]
    /\ current' = s /\ status' = "blocked" /\ lastError' = category

Init ==
    /\ current = plan /\ status = "pending" /\ lastError = "none"
    /\ artifacts = [s \in StageOrder |-> <<>>]
    /\ ran = <<>> /\ runs = 0

(***************************************************************************)
(* The stages                                                              *)
(***************************************************************************)

\* A provider fault, an empty reply, a refused read, a missing capability, a
\* timeout: the stage fails before it has drafts, with classify's category.
RunFails(s) ==
    /\ Run(s)
    /\ \E category \in
           CASE s = plan -> {"stage_unavailable", "model_failed"}
             [] s = extract -> {"stage_unavailable", "tool_denied", "model_failed"}
             [] s = infer -> {"model_failed"}
             [] s = emit -> {}
             [] s = verify -> {"stage_unavailable", "tool_denied"} :
           FailWith(s, <<>>, category)
    /\ UNCHANGED ran

RunPlan ==
    /\ Run(plan)
    /\ Complete(plan, <<Draft("plan.md", "plan", "prose")>>)
    /\ UNCHANGED ran

RunExtract ==
    /\ Run(extract)
    /\ \E reply \in ExtractReplies :
           IF Decodes(reply) /\ Validate(reply)
           THEN Complete(extract, MapDrafts(reply))
           ELSE FailWith(extract, RawDraft, "schema_invalid")
    /\ UNCHANGED ran

\* The stored map is loaded first, the merge is validated and not the reply.
RunInfer ==
    /\ Run(infer)
    /\ IF ~CanLoad(infer) THEN FailWith(infer, <<>>, LoadError(infer))
       ELSE LET base == FindStageArtifact("regir", infer)
            IN  \E reply \in InferReplies :
                   IF Decodes(reply) /\ Validate(MergeInferred(base, reply))
                   THEN Complete(infer, MapDrafts(MergeInferred(base, reply)))
                   ELSE FailWith(infer, RawDraft, "schema_invalid")
    /\ UNCHANGED ran

RunEmit ==
    /\ Run(emit)
    /\ IF ~CanLoad(emit) THEN FailWith(emit, <<>>, LoadError(emit))
       ELSE LET drafts == EmitDrafts(FindStageArtifact("regir", emit))
            IN  IF AutoApply THEN Complete(emit, drafts)
                ELSE Hold(emit, drafts, "awaiting_apply")
    /\ UNCHANGED ran

\* The exit markers in what the bash tool returns: those the command printed, then
\* the wrapper's own, unless the output was longer than the tool keeps.
Marks(output) ==
    IF output.cut THEN output.printed ELSE Append(output.printed, output.code)

\* Mutant of ExitCode: the first marker.
FirstExitCode(output) == Head(Marks(output))

\* splitExitMarker: the last marker.
ExitCode(output) == Last(Marks(output))

CommandRecord(kind, output) == [kind |-> kind, code |-> ExitCode(output)]

\* A directory that is not there leaves the shell before the marker (exit 66), and
\* output without a marker is no status: both are a call that was not made.
Answered(output) == output.entered /\ Marks(output) # <<>>

AllOK(records) == \A i \in 1..Len(records) : records[i].code = 0

\* Build, then the device's test only when the build's record is a pass; the
\* report is filed whatever it says.
RunVerify ==
    /\ Run(verify)
    /\ IF ~CanLoad(verify)
       THEN FailWith(verify, <<>>, LoadError(verify)) /\ UNCHANGED ran
       ELSE \E build, qtest \in Outputs :
              LET built == Answered(build) /\ ExitCode(build) = 0
                  records == IF built THEN <<CommandRecord("build", build), CommandRecord("qtest", qtest)>>
                             ELSE <<CommandRecord("build", build)>>
                  ok == AllOK(records)
                  drafts == [i \in 1..Len(records) |->
                                Draft(records[i].kind, "evidence", records[i])]
                            \o <<Draft("evidence.json", "evidence",
                                       [ok |-> ok, records |-> records])>>
              IN  IF ~Answered(build) \/ (built /\ ~Answered(qtest))
                  THEN FailWith(verify, <<>>, "tool_denied") /\ UNCHANGED ran
                  ELSE /\ ran' = IF built THEN <<build, qtest>> ELSE <<build>>
                       /\ IF ok THEN Complete(verify, drafts)
                          ELSE Hold(verify, drafts, "build_failed")

\* The applier lands the stage's files and completes it (ModelingApplier has how).
Apply ==
    /\ Run(emit)
    /\ artifacts[emit] # <<>>
    /\ current' = verify /\ status' = "pending" /\ lastError' = "none"
    /\ UNCHANGED <<artifacts, ran>>

\* To any stage, one not reached yet included.
Reset ==
    /\ runs < MaxRuns /\ runs' = runs + 1
    /\ \E s \in StageOrder :
           /\ Record(s, <<>>)
           /\ current' = s /\ status' = "pending" /\ lastError' = "none"
    /\ UNCHANGED ran

Next ==
    \/ RunPlan \/ RunExtract \/ RunInfer \/ RunEmit \/ RunVerify
    \/ Apply \/ Reset
    \/ \E s \in StageOrder : RunFails(s)

Spec == Init /\ [][Next]_vars

(***************************************************************************)
(* Properties                                                              *)
(***************************************************************************)

\* The drafts a stage has filed under a name.
Filed(s, name) == {artifacts[s][i].body :
                      i \in {j \in 1..Len(artifacts[s]) : artifacts[s][j].name = name}}

Maps == UNION {Filed(s, "reg-ir.json") : s \in StageOrder}

\* "Every claim about hardware that reaches generated C has passed Validate()
\* first" (regir.go:8): judged by definition and not by sorting, the registers of a
\* filed map have names of their own, lie in the window and share no byte of it, no
\* two fields of one share a bit, every documented reset value fits, and every
\* interrupt has its own line.  Not for a register wider than the whole window:
\* mmioSize - size wraps, and the register may lie anywhere, even on another.
SoundMap ==
    \A ir \in Maps :
        /\ \A i, j \in 1..Len(ir.registers) :
               LET r == ir.registers[i]
                   q == ir.registers[j]
               IN  i # j => /\ r.name # q.name
                            /\ \/ r.width > ir.mmio \/ q.width > ir.mmio
                               \/ r.offset + r.width <= q.offset
                               \/ q.offset + q.width <= r.offset
        /\ \A r \in Registers(ir) :
               /\ r.width <= ir.mmio => r.offset + r.width <= ir.mmio
               /\ r.reset # Unknown => r.reset < 2 ^ (8 * r.width)
               /\ \A i, j \in 1..Len(r.fields) :
                      i # j => \A b \in 0..8 * r.width : \E f \in {r.fields[i], r.fields[j]} :
                                  b < f.bit \/ b >= f.bit + f.width
        /\ Cardinality(ToSet(ir.irqs)) = Len(ir.irqs)

\* "The offsets, widths and names that extract read out of a datasheet are facts"
\* (stage_infer.go:10): whatever the model answers, and however often it names one
\* register, the map infer files has the registers of the one extract filed, and
\* what that one knew: reset values, access, fields and interrupts.
InferKeepsTheMap ==
    \A old \in Filed(extract, "reg-ir.json"), new \in Filed(infer, "reg-ir.json") :
        /\ Len(new.registers) = Len(old.registers)
        /\ \A i \in 1..Len(old.registers) :
               LET r == old.registers[i]
                   q == new.registers[i]
               IN  /\ <<q.name, q.offset, q.width, q.access>> =
                           <<r.name, r.offset, r.width, r.access>>
                   /\ r.reset # Unknown => q.reset = r.reset
                   /\ r.fields # <<>> => q.fields = r.fields
        /\ old.irqs # <<>> => new.irqs = old.irqs

\* "The generated device says unknown in code the same way open-questions.md says it
\* in prose" (renderer_c.go:222): a readable register the emitted code marks TODO is
\* asked about in the latest questions on file, and the other way round.
CodeSaysUnknown ==
    \A code \in Filed(emit, "device.c"), ir \in Filed(infer, "reg-ir.json") :
        LET asked == UNION {q.resets : q \in Filed(infer, "open-questions.md")}
            readable == {r.name : r \in {q \in Registers(ir) : q.access \notin {"wo", "rsvd"}}}
        IN  code.todo \intersect readable = asked

\* The command exited 0, or the tool cut its output and the last marker left is one
\* that the command printed.
Passed(output) == output.code = 0 \/ (output.cut /\ output.printed # <<>>)

\* "An unknown status must not be reported as a pass" and printed text "must not be
\* able to fake a success" (stage_verify.go:182, 241): a report that says ok, and
\* with it a project that is done, is of a run whose build and test both exited 0,
\* but for what a cut output passes off as its status.
VerdictIsEarned ==
    LET earned == Len(ran) = 2 /\ Passed(ran[1]) /\ Passed(ran[2])
    IN  /\ \A report \in Filed(verify, "evidence.json") : report.ok => earned
        /\ status = "done" => Filed(verify, "evidence.json") # {} /\ earned

=============================================================================
