--------------------------- MODULE PipelineProofs ---------------------------
(***************************************************************************)
(* Proofs about Pipeline for any set of output paths: the invariants that  *)
(* its run checks on two of them.  The inductive invariant says, phase by  *)
(* phase, how far the run has come.                                        *)
(***************************************************************************)
EXTENDS Pipeline, TLAPS

ReadingDone == {"compute", "open_output", "write_output", "close_output", "reported"}

\* What has been checked so far exists, or somebody else has changed it since.
Existed(name) == file[name] \notin {"missing", "out_of_reach"} \/ name \in changed
OpenedExisting(name) == stream[name] \notin {"missing", "out_of_reach"} \/ name \in changed

Checked ==
  entry = "addon" =>
    /\ pc = "check_inputs" => \A i \in 1 .. step : Existed(Inputs[i])
    /\ pc \in {"check_outputs", "open"} => \A name \in InputNames : Existed(name)
    /\ pc = "read" => \A name \in InputNames : OpenedExisting(name)
    /\ pc = "terminated" /\ stream # <<>> => \A name \in InputNames : OpenedExisting(name)

\* What exists() cannot tell about.
OutOfReach ==
  \/ \E name \in InputNames : file[name] = "out_of_reach"
  \/ \E output \in OutputNames : place[path[output]] = "out_of_reach"

BeforeOpening == {"arguments", "check_inputs", "check_outputs", "open"}

\* What has been read so far was readable, and nothing is written before.
ReadSoFar ==
  /\ pc \in BeforeOpening => stream = <<>>
  /\ pc \in {"read"} \cup ReadingDone => stream \in [InputNames -> FileStates]
  /\ pc = "read" => \A i \in 1 .. step : stream[Inputs[i]] = "readable"
  /\ pc = "terminated" =>
       IF stream = <<>> THEN OutOfReach ELSE \E name \in InputNames : stream[name] # "readable"
  /\ pc \in ReadingDone => \A name \in InputNames : stream[name] = "readable"
  /\ pc = "compute" \/ pc \notin ReadingDone \cup {"killed"} => \A p \in Paths : content[p] = "before"

\* How far the outputs are: the matching is dealt with before the statistics,
\* which may take its path.
MatchingDone ==
  \/ content[path["matching"]] = "matching"
  \/ "matching" \in failed
  \/ path["stats"] = path["matching"] /\ content[path["stats"]] \in {"stats", "part"}
StatsDone == content[path["stats"]] = "stats" \/ "stats" \in failed

WrittenSoFar ==
  /\ pc \in {"open_output", "write_output", "close_output"} =>
       /\ step = 0 /\ path["stats"] # path["matching"] => content[path["stats"]] = "before"
       /\ step = 1 => MatchingDone
  /\ pc = "close_output" => IF step = 0 THEN MatchingDone ELSE StatsDone
  /\ pc = "reported" => MatchingDone /\ StatsDone

PipelineInvariant ==
  /\ TypeOK
  /\ Checked
  /\ ReadSoFar
  /\ WrittenSoFar
  /\ OutputsNeedReadInputs
  /\ StatsAfterMatching

-----------------------------------------------------------------------------
\* The names of the files, without the sequences they are written as.
LEMMA Names ==
  /\ DOMAIN Inputs = 1 .. 3 /\ Len(Inputs) = 3
  /\ Len(Outputs) = 2 /\ Outputs[1] = "matching" /\ Outputs[2] = "stats"
  /\ OutputNames = {"matching", "stats"}
  /\ \A i \in 1 .. 3 : Inputs[i] \in InputNames
  /\ \A name \in InputNames : \E i \in 1 .. 3 : name = Inputs[i]
  /\ CheckedInputs = Inputs /\ Len(CheckedInputs) = 3 /\ NumRead = 3 /\ WriteOrder = Outputs
<1>1. DOMAIN Inputs = 1 .. 3 /\ Len(Inputs) = 3
  BY DEF Inputs
<1>2. Len(Outputs) = 2 /\ Outputs[1] = "matching" /\ Outputs[2] = "stats" /\ DOMAIN Outputs = 1 .. 2
  BY DEF Outputs
<1>3. OutputNames = {"matching", "stats"}
  BY <1>2 DEF OutputNames
<1>4. /\ \A i \in 1 .. 3 : Inputs[i] \in InputNames
      /\ \A name \in InputNames : \E i \in 1 .. 3 : name = Inputs[i]
  BY <1>1 DEF InputNames
<1>5. QED
  BY <1>1, <1>2, <1>3, <1>4 DEF CheckedInputs, NumRead, WriteOrder

LEMMA Different == \A i, k \in 1 .. 3 : Inputs[i] = Inputs[k] => i = k
BY DEF Inputs

LEMMA TypeFacts ==
  ASSUME TypeOK
  PROVE  /\ step \in 0 .. 3
         /\ pc = "check_outputs" => step \in 0 .. 2
         /\ pc \in {"open_output", "write_output", "close_output"} => step \in 0 .. 1
         /\ path["matching"] \in Paths /\ path["stats"] \in Paths
         /\ content \in [Paths -> {"before", "part", "matching", "stats"}]
         /\ failed \subseteq {"matching", "stats"}
<1>1. /\ step \in 0 .. Len(Inputs)
      /\ pc = "check_outputs" => step <= Len(Outputs)
      /\ pc \in {"open_output", "write_output", "close_output"} => step < Len(Outputs)
  BY DEF TypeOK
<1>2. Len(Inputs) = 3 /\ Len(Outputs) = 2 /\ OutputNames = {"matching", "stats"}
  BY Names
<1>3. step \in 0 .. 3
  BY <1>1, <1>2
<1>4. path \in [{"matching", "stats"} -> Paths]
  BY <1>2 DEF TypeOK
<1>5. content \in [Paths -> {"before", "part"} \cup {"matching", "stats"}] /\ failed \subseteq {"matching", "stats"}
  BY <1>2 DEF TypeOK
<1>6. QED
  BY <1>1, <1>2, <1>3, <1>4, <1>5

\* An input that was opened left a trace.
LEMMA OpenedIsNotEmpty == \A opened \in [InputNames -> FileStates] : opened # <<>>
<1>1. SUFFICES ASSUME NEW opened \in [InputNames -> FileStates] PROVE opened # <<>>
  OBVIOUS
<1>2. Inputs[1] \in DOMAIN opened
  BY Names
<1>3. DOMAIN <<>> = {}
  OBVIOUS
<1>4. QED
  BY <1>2, <1>3

LEMMA PipelineInit == Init => PipelineInvariant
<1>1. SUFFICES ASSUME Init PROVE PipelineInvariant
  OBVIOUS
<1>2. TypeOK
  BY <1>1, Names DEF Init, TypeOK, Ends
<1>3. Checked /\ ReadSoFar /\ WrittenSoFar
  BY <1>1, Names DEF Init, Checked, ReadSoFar, ReadingDone, BeforeOpening, WrittenSoFar
<1>4. OutputsNeedReadInputs /\ StatsAfterMatching
  BY <1>1, Names DEF Init, OutputsNeedReadInputs, StatsAfterMatching
<1>5. QED
  BY <1>2, <1>3, <1>4 DEF PipelineInvariant


\* The steps before the outputs leave the files and the results alone,
\* so that only the progress of the checks and of the reading has to be looked at.
BeforeOutputs == CheckArguments \/ CheckInput \/ CheckOutput \/ OpenInputs \/ ReadInput \/ Compute
Phases == {"arguments", "check_inputs", "check_outputs", "open", "read", "compute"}

Progress ==
  /\ pc = "arguments" =>
       /\ step' = 0 /\ stream' = stream
       /\ pc' \in {"refused", "check_inputs", "open"}
       /\ entry = "addon" => pc' # "open"
  /\ pc = "check_inputs" =>
       /\ stream' = stream
       /\ \/ pc' \in {"refused", "terminated"} /\ step' = 0
          \/ pc' = "check_outputs" /\ step = 3 /\ step' = 0
          \/ pc' = "check_inputs" /\ step < 3 /\ step' = step + 1
  /\ pc = "check_outputs" =>
       /\ stream' = stream
       /\ \/ pc' \in {"refused", "terminated", "open"} /\ step' = 0
          \/ pc' = "check_outputs" /\ step # 2 /\ step' = step + 1
  /\ pc = "open" => pc' = "read" /\ stream' = file /\ step' = 0
  /\ pc = "read" =>
       /\ stream' = stream
       /\ \/ pc' = "terminated" /\ step < 3 /\ step' = 0
          \/ pc' = "compute" /\ step = 3 /\ step' = 0
          \/ pc' = "read" /\ step < 3 /\ step' = step + 1
  /\ pc = "compute" => pc' = "open_output" /\ step' = 0 /\ stream' = stream

Found ==
  /\ IF pc = "check_inputs" /\ pc' = "check_inputs"
       THEN /\ file[Inputs[step + 1]] \notin {"missing", "out_of_reach"}
            /\ changed' = changed \ {Inputs[step + 1]}
       ELSE changed' = changed
  /\ pc \in {"check_inputs", "check_outputs"} /\ pc' = "terminated" => OutOfReach
  /\ pc = "read" /\ pc' = "read" => stream[Inputs[step + 1]] = "readable"
  /\ pc = "read" /\ pc' = "terminated" => stream[Inputs[step + 1]] # "readable"

LEMMA ProgressBeforeOutputs ==
  ASSUME TypeOK, BeforeOutputs
  PROVE  UNCHANGED <<call, file, place, results>> /\ pc \in Phases /\ Progress /\ Found
<1>1. step \in 0 .. 3 /\ (pc = "check_outputs" => step \in 0 .. 2)
  BY TypeFacts
<1>2. UNCHANGED <<call, file, place, results>> /\ pc \in Phases
  BY DEF BeforeOutputs, Phases, surroundings,
         CheckArguments, CheckInput, CheckOutput, OpenInputs, ReadInput, Compute
<1> SUFFICES Progress /\ Found
  BY <1>2
<1>3. CASE CheckArguments
  BY <1>3 DEF CheckArguments, GoTo, surroundings, Progress, Found
<1>4. CASE CheckInput
  <2>1. /\ pc = "check_inputs" /\ stream' = stream
        /\ \/ step = 3 /\ pc' = "check_outputs" /\ step' = 0 /\ changed' = changed
           \/ /\ step # 3 /\ file[Inputs[step + 1]] = "missing"
              /\ pc' = "refused" /\ step' = 0 /\ changed' = changed
           \/ /\ step # 3 /\ file[Inputs[step + 1]] = "out_of_reach"
              /\ pc' = "terminated" /\ step' = 0 /\ changed' = changed
           \/ /\ step # 3 /\ file[Inputs[step + 1]] \notin {"missing", "out_of_reach"}
              /\ pc' = pc /\ step' = step + 1 /\ changed' = changed \ {Inputs[step + 1]}
    BY <1>4, Names DEF CheckInput, GoTo, DoNext
  <2>2. step # 3 => step < 3 /\ step + 1 \in 1 .. 3
    BY <1>1
  <2>3. step # 3 => Inputs[step + 1] \in InputNames
    BY <2>2, Names
  <2>4. Progress
    BY <2>1, <2>2 DEF Progress
  <2>5. Found
    BY <2>1, <2>3 DEF Found, OutOfReach
  <2>6. QED
    BY <2>4, <2>5
<1>5. CASE CheckOutput
  <2>1. /\ pc = "check_outputs" /\ stream' = stream /\ changed' = changed
        /\ \/ step = 2 /\ pc' = "open" /\ step' = 0
           \/ step # 2 /\ pc' = "refused" /\ step' = 0
           \/ /\ step # 2 /\ place[path[Outputs[step + 1]]] = "out_of_reach"
              /\ pc' = "terminated" /\ step' = 0
           \/ step # 2 /\ pc' = pc /\ step' = step + 1
    BY <1>5, Names DEF CheckOutput, GoTo, DoNext, surroundings
  <2>2. step # 2 => step = 0 \/ step = 1
    BY <1>1, <2>1
  <2>3. step # 2 => Outputs[step + 1] \in OutputNames
    BY <2>2, Names
  <2>4. Progress
    BY <2>1 DEF Progress
  <2>5. Found
    BY <2>1, <2>3 DEF Found, OutOfReach
  <2>6. QED
    BY <2>4, <2>5
<1>6. CASE OpenInputs
  BY <1>6 DEF OpenInputs, GoTo, surroundings, Progress, Found
<1>7. CASE ReadInput
  <2>1. /\ pc = "read" /\ stream' = stream /\ changed' = changed
        /\ IF step = 3 THEN pc' = "compute" /\ step' = 0
           ELSE IF stream[Inputs[step + 1]] # "readable" THEN pc' = "terminated" /\ step' = 0
           ELSE step' = step + 1 /\ pc' = pc
    BY <1>7, Names DEF ReadInput, GoTo, DoNext, surroundings
  <2>2. step # 3 => step < 3
    BY <1>1
  <2>3. QED
    BY <2>1, <2>2 DEF Progress, Found
<1>8. CASE Compute
  BY <1>8 DEF Compute, GoTo, surroundings, Progress, Found
<1>9. QED
  BY <1>3, <1>4, <1>5, <1>6, <1>7, <1>8 DEF BeforeOutputs

LEMMA BeforeOutputsKeepsInvariant ==
  ASSUME PipelineInvariant, BeforeOutputs
  PROVE  PipelineInvariant'
<1>1. TypeOK /\ Checked /\ ReadSoFar /\ WrittenSoFar /\ OutputsNeedReadInputs /\ StatsAfterMatching
  BY DEF PipelineInvariant
<1>2. pc \in Phases /\ Progress /\ Found
  BY <1>1, ProgressBeforeOutputs
<1>3. /\ entry' = entry /\ arguments' = arguments /\ path' = path
      /\ file' = file /\ place' = place
      /\ content' = content /\ failed' = failed
  BY <1>1, ProgressBeforeOutputs DEF call, results
<1>4. step \in 0 .. 3 /\ (pc = "check_outputs" => step \in 0 .. 2)
  BY <1>1, TypeFacts
<1>5. \A p \in Paths : content[p] = "before"
  BY <1>1, <1>2 DEF ReadSoFar, ReadingDone, Phases
<1>6. TypeOK'
  <2>1. pc' \in {"arguments", "check_inputs", "check_outputs", "open", "read", "compute",
                 "open_output", "write_output", "close_output"} \cup Ends
    BY <1>2 DEF Progress, Phases, Ends
  <2>2. step' \in 0 .. 3 /\ (pc' = "check_outputs" => step' \in 0 .. 2)
    BY <1>2, <1>4 DEF Progress, Phases
  <2>3. pc' \in {"open_output", "write_output", "close_output"} => step' = 0
    BY <1>2 DEF Progress, Phases
  <2>4. stream' = stream \/ stream' = file
    BY <1>2 DEF Progress, Phases
  <2>5. stream' \in {<<>>} \cup [InputNames -> FileStates]
    BY <1>1, <2>4 DEF TypeOK
  <2>6. changed' \subseteq changed
    BY <1>2 DEF Found
  <2>7. QED
    BY <1>1, <1>3, <2>1, <2>2, <2>3, <2>5, <2>6, Names DEF TypeOK
<1>7. Checked'
  <2>1. SUFFICES ASSUME entry = "addon" PROVE Checked'
    BY <1>3 DEF Checked
  <2>2. \A name : Existed(name) => Existed(name)'
    BY <1>2, <1>3 DEF Existed, Found
  <2>3. ASSUME pc' = "check_inputs", NEW i \in 1 .. step' PROVE Existed(Inputs[i])'
    <3>1. (pc = "arguments" /\ step' = 0) \/ (pc = "check_inputs" /\ step' = step + 1)
      BY <1>2, <2>3 DEF Progress, Phases
    <3>2. pc = "check_inputs" /\ i \in 1 .. step + 1
      BY <2>3, <3>1
    <3>3. CASE i = step + 1
      BY <1>2, <1>3, <2>3, <3>2, <3>3 DEF Found, Existed
    <3>4. CASE i \in 1 .. step
      BY <1>1, <2>1, <2>2, <3>2, <3>4 DEF Checked
    <3>5. QED
      BY <1>4, <3>2, <3>3, <3>4
  <2>4. ASSUME pc' \in {"check_outputs", "open"}, NEW name \in InputNames PROVE Existed(name)'
    <3>1. pc = "check_outputs" \/ (pc = "check_inputs" /\ step = 3)
      BY <1>2, <2>1, <2>4 DEF Progress, Phases
    <3>2. PICK i \in 1 .. 3 : name = Inputs[i]
      BY Names
    <3>3. QED
      BY <1>1, <2>1, <2>2, <3>1, <3>2 DEF Checked
  <2>5. ASSUME pc' = "read" \/ (pc' = "terminated" /\ stream' # <<>>), NEW name \in InputNames
        PROVE  OpenedExisting(name)'
    <3>1. pc \in {"open", "read"} \/ stream # <<>>
      BY <1>2, <2>5 DEF Progress, Phases
    <3>2. pc \in {"open", "read"}
      BY <1>1, <1>2, <3>1, <2>5 DEF ReadSoFar, BeforeOpening, Progress, Phases
    <3>3. (pc = "open" => stream' = file) /\ (pc = "read" => stream' = stream) /\ changed' = changed
      BY <1>2, <3>2 DEF Progress, Found
    <3>4. QED
      BY <1>1, <1>3, <2>1, <3>2, <3>3 DEF Checked, Existed, OpenedExisting
  <2>6. QED
    BY <2>3, <2>4, <2>5 DEF Checked
<1>8. ReadSoFar'
  <2>1. ASSUME pc' \in {"read"} \cup ReadingDone
        PROVE  /\ pc \in {"open", "read", "compute"}
               /\ pc = "open" => stream' = file
               /\ pc # "open" => stream' = stream
    BY <1>2, <2>1 DEF Progress, Phases, ReadingDone
  <2>2. pc' \in {"read"} \cup ReadingDone => stream' \in [InputNames -> FileStates]
    BY <1>1, <2>1 DEF ReadSoFar, TypeOK, ReadingDone
  <2>3. ASSUME pc' = "read", NEW i \in 1 .. step' PROVE stream'[Inputs[i]] = "readable"
    <3>1. (pc = "open" /\ step' = 0) \/ (pc = "read" /\ step' = step + 1 /\ stream' = stream)
      BY <1>2, <2>3 DEF Progress, Phases
    <3>2. pc = "read" /\ stream' = stream /\ i \in 1 .. step + 1
      BY <2>3, <3>1
    <3>3. CASE i = step + 1
      BY <1>2, <2>3, <3>2, <3>3 DEF Found
    <3>4. CASE i \in 1 .. step
      BY <1>1, <3>2, <3>4 DEF ReadSoFar
    <3>5. QED
      BY <1>4, <3>2, <3>3, <3>4
  <2>4. ASSUME pc' = "terminated"
        PROVE  IF stream' = <<>> THEN OutOfReach'
               ELSE \E name \in InputNames : stream'[name] # "readable"
    <3>1. CASE pc = "read"
      <4>1. stream' = stream /\ stream[Inputs[step + 1]] # "readable" /\ step + 1 \in 1 .. 3
        BY <1>2, <1>4, <2>4, <3>1 DEF Progress, Found
      <4>2. stream # <<>>
        BY <1>1, <3>1, OpenedIsNotEmpty DEF ReadSoFar
      <4>3. QED
        BY <4>1, <4>2, Names
    <3>2. CASE pc \in {"check_inputs", "check_outputs"}
      <4>1. stream' = <<>> /\ OutOfReach
        BY <1>1, <1>2, <2>4, <3>2 DEF Progress, Found, ReadSoFar, BeforeOpening
      <4>2. QED
        BY <1>3, <4>1 DEF OutOfReach
    <3>3. QED
      BY <1>2, <2>4, <3>1, <3>2 DEF Progress, Phases
  <2>5. ASSUME pc' \in ReadingDone, NEW name \in InputNames PROVE stream'[name] = "readable"
    <3>1. stream' = stream /\ (pc = "compute" \/ (pc = "read" /\ step = 3))
      BY <1>2, <2>5 DEF Progress, Phases, ReadingDone
    <3>2. PICK i \in 1 .. 3 : name = Inputs[i]
      BY Names
    <3>3. QED
      BY <1>1, <3>1, <3>2 DEF ReadSoFar, ReadingDone
  <2>6. \A p \in Paths : content'[p] = "before"
    BY <1>3, <1>5
  <2>7. pc' \in BeforeOpening => stream' = <<>>
    BY <1>1, <1>2 DEF Progress, Phases, ReadSoFar, BeforeOpening
  <2>8. QED
    BY <2>2, <2>3, <2>4, <2>5, <2>6, <2>7 DEF ReadSoFar
<1>9. WrittenSoFar'
  <2>1. pc' = "open_output" => step' = 0
    BY <1>2 DEF Progress, Phases
  <2>2. pc' \notin {"write_output", "close_output", "reported"}
    BY <1>2 DEF Progress, Phases
  <2>3. path["stats"] \in Paths
    BY <1>1, TypeFacts
  <2>4. content'[path'["stats"]] = "before"
    BY <1>3, <1>5, <2>3
  <2>5. QED
    BY <2>1, <2>2, <2>4 DEF WrittenSoFar
<1>10. OutputsNeedReadInputs' /\ StatsAfterMatching'
  BY <1>1, <1>3, <1>5, Names DEF OutputsNeedReadInputs, StatsAfterMatching, TypeOK
<1>11. QED
  BY <1>6, <1>7, <1>8, <1>9, <1>10 DEF PipelineInvariant

LEMMA OutputsKeepInvariant ==
  PipelineInvariant /\ (OpenOutput \/ WriteOutput \/ CloseOutput) => PipelineInvariant'
<1>1. SUFFICES ASSUME PipelineInvariant, OpenOutput \/ WriteOutput \/ CloseOutput
               PROVE  PipelineInvariant'
  OBVIOUS
<1> USE <1>1 DEF PipelineInvariant
<1>2. /\ entry' = entry /\ path' = path /\ file' = file /\ changed' = changed
      /\ place' = place /\ arguments' = arguments /\ stream' = stream
  BY DEF OpenOutput, WriteOutput, CloseOutput, call, surroundings
<1>3. /\ step \in 0 .. 1
      /\ step = 0 => WriteOrder[step + 1] = "matching"
      /\ step = 1 => WriteOrder[step + 1] = "stats"
  BY Names DEF OpenOutput, WriteOutput, CloseOutput, TypeOK
<1>4. path["matching"] \in Paths /\ path["stats"] \in Paths
  BY Names DEF TypeOK
<1>5. /\ pc \in {"open_output", "write_output", "close_output"}
      /\ pc' \in {"open_output", "write_output", "close_output", "reported"}
  BY DEF OpenOutput, WriteOutput, CloseOutput, GoTo
<1>6. ASSUME NEW output \in {"matching", "stats"}, output = WriteOrder[step + 1]
      PROVE  /\ content \in [Paths -> {"before", "part", "matching", "stats"}]
             /\ failed \in SUBSET {"matching", "stats"}
  BY Names DEF TypeOK
<1>7. TypeOK'
  <2>1. content' \in [Paths -> {"before", "part", "matching", "stats"}]
    BY <1>3, <1>4, <1>6, Names DEF OpenOutput, WriteOutput, CloseOutput, results
  <2>2. failed' \in SUBSET {"matching", "stats"}
    BY <1>3, <1>6, Names DEF OpenOutput, WriteOutput, CloseOutput, results
  <2>3. step' \in 0 .. 1
    BY <1>3, Names DEF OpenOutput, WriteOutput, CloseOutput, GoTo
  <2>4. QED
    BY <1>2, <1>5, <2>1, <2>2, <2>3, Names DEF TypeOK, Ends
<1>8. Checked'
  BY <1>5 DEF Checked
<1>9. ReadSoFar'
  BY <1>2, <1>5 DEF ReadSoFar, ReadingDone, BeforeOpening
<1>10. OutputsNeedReadInputs'
  BY <1>2, <1>5, Names DEF ReadSoFar, ReadingDone, OutputsNeedReadInputs, TypeOK
<1>11. WrittenSoFar' /\ StatsAfterMatching'
  <2>1. CASE OpenOutput
    BY <2>1, <1>2, <1>3, <1>4, <1>6
       DEF OpenOutput, WrittenSoFar, MatchingDone, StatsDone, StatsAfterMatching
  <2>2. CASE WriteOutput
    BY <2>2, <1>2, <1>3, <1>4, <1>6
       DEF WriteOutput, WrittenSoFar, MatchingDone, StatsDone, StatsAfterMatching
  <2>3. CASE CloseOutput
    BY <2>3, <1>2, <1>3, Names
       DEF CloseOutput, GoTo, results, WrittenSoFar, MatchingDone, StatsDone, StatsAfterMatching
  <2>4. QED
    BY <1>1, <2>1, <2>2, <2>3
<1>12. QED
  BY <1>7, <1>8, <1>9, <1>10, <1>11

\* What others do disturbs the checks only, and a kill nothing.
LEMMA OthersKeepInvariant ==
  ASSUME PipelineInvariant,
         \/ \E name \in InputNames : ChangeInput(name)
         \/ \E name \in InputNames : RewriteInput(name)
         \/ \E p \in Paths : ChangePlace(p)
         \/ Kill
  PROVE  PipelineInvariant'
<1> USE DEF PipelineInvariant, call, surroundings, results
<1>1. CASE \E name \in InputNames : ChangeInput(name)
  <2>1. PICK name \in InputNames : ChangeInput(name)
    BY <1>1
  <2>2. TypeOK'
    BY <2>1 DEF ChangeInput, TypeOK
  <2>3. Checked'
    <3>1. \A other \in InputNames : Existed(other) => Existed(other)'
      BY <2>1 DEF ChangeInput, TypeOK, Existed
    <3>2. step \in 0 .. 3 /\ step' = step /\ pc' = pc /\ entry' = entry /\ stream' = stream
      BY <2>1, Names DEF ChangeInput, TypeOK
    <3>3. \A other \in InputNames : OpenedExisting(other) => OpenedExisting(other)'
      BY <2>1 DEF ChangeInput, OpenedExisting
    <3>4. \A i \in 1 .. step : Inputs[i] \in InputNames
      BY <3>2, Names
    <3>5. QED
      BY <3>1, <3>2, <3>3, <3>4 DEF Checked
  <2>4. (ReadSoFar /\ WrittenSoFar /\ OutputsNeedReadInputs /\ StatsAfterMatching)'
    BY <2>1 DEF ChangeInput, ReadSoFar, Ends, WrittenSoFar, MatchingDone, StatsDone, OutputsNeedReadInputs,
                StatsAfterMatching
  <2>5. QED
    BY <2>2, <2>3, <2>4
<1>2. CASE \E p \in Paths : ChangePlace(p)
  <2>1. PICK p \in Paths : ChangePlace(p)
    BY <1>2
  <2>2. TypeOK'
    BY <2>1 DEF ChangePlace, TypeOK, FolderStates, PathStates
  <2>3. (Checked /\ ReadSoFar /\ WrittenSoFar /\ OutputsNeedReadInputs /\ StatsAfterMatching)'
    BY <2>1 DEF ChangePlace, Checked, Existed, OpenedExisting, ReadSoFar, Ends, WrittenSoFar, MatchingDone,
                StatsDone, OutputsNeedReadInputs, StatsAfterMatching
  <2>4. QED
    BY <2>2, <2>3
<1>3. CASE Kill
  <2>1. TypeOK'
    BY <1>3 DEF Kill, TypeOK, Ends
  <2>2. (Checked /\ ReadSoFar /\ WrittenSoFar /\ OutputsNeedReadInputs /\ StatsAfterMatching)'
    BY <1>3 DEF Kill, Checked, ReadSoFar, ReadingDone, BeforeOpening, WrittenSoFar, OutputsNeedReadInputs,
                StatsAfterMatching
  <2>3. QED
    BY <2>1, <2>2
<1>4. CASE \E name \in InputNames : RewriteInput(name)
  <2>1. PICK name \in InputNames : RewriteInput(name)
    BY <1>4
  <2>2. stream \in [InputNames -> FileStates] /\ stream' \in [InputNames -> FileStates]
    BY <2>1 DEF RewriteInput, ReadSoFar, FileStates
  <2>3. TypeOK'
    BY <2>1, <2>2 DEF RewriteInput, TypeOK
  <2>4. step \in 0 .. 3
    BY TypeFacts
  <2>5. \A i \in 1 .. step : stream'[Inputs[i]] = "readable"
    <3>1. SUFFICES ASSUME NEW i \in 1 .. step PROVE stream'[Inputs[i]] = "readable"
      OBVIOUS
    <3>2. PICK k \in step + 1 .. 3 : name = Inputs[k]
      BY <2>1, Names DEF RewriteInput
    <3>3. Inputs[i] # name
      BY <2>4, <3>2, Different
    <3>4. Inputs[i] \in InputNames
      BY <2>4, Names
    <3>5. QED
      BY <2>1, <2>2, <3>3, <3>4 DEF RewriteInput, ReadSoFar
  <2>6. Checked'
    <3>1. \A other \in InputNames : OpenedExisting(other) => OpenedExisting(other)'
      BY <2>1, <2>2 DEF RewriteInput, OpenedExisting
    <3>2. QED
      BY <2>1, <3>1 DEF RewriteInput, Checked
  <2>7. ReadSoFar'
    BY <2>1, <2>2, <2>5 DEF RewriteInput, ReadSoFar, ReadingDone, BeforeOpening
  <2>8. (WrittenSoFar /\ OutputsNeedReadInputs /\ StatsAfterMatching)'
    BY <2>1 DEF RewriteInput, ReadSoFar, ReadingDone, WrittenSoFar, OutputsNeedReadInputs, StatsAfterMatching
  <2>9. QED
    BY <2>3, <2>6, <2>7, <2>8
<1>5. QED
  BY <1>1, <1>2, <1>3, <1>4

LEMMA StutteringKeepsInvariant == PipelineInvariant /\ UNCHANGED vars => PipelineInvariant'
BY DEF vars, PipelineInvariant, TypeOK, Checked, Existed, OpenedExisting, OutOfReach, ReadSoFar, WrittenSoFar,
       MatchingDone, StatsDone, OutputsNeedReadInputs, StatsAfterMatching

LEMMA PipelineInvariantHolds == Spec => []PipelineInvariant
<1>1. PipelineInvariant /\ [Next]_vars => PipelineInvariant'
  BY BeforeOutputsKeepsInvariant, OutputsKeepInvariant, OthersKeepInvariant, StutteringKeepsInvariant
     DEF Next, Run, BeforeOutputs
<1>2. QED
  BY <1>1, PipelineInit, PTL DEF Spec

-----------------------------------------------------------------------------
\* The type invariant of the run of the program.
THEOREM PipelineTypeCorrect == Spec => []TypeOK
<1>1. PipelineInvariant => TypeOK
  BY DEF PipelineInvariant
<1>2. QED
  BY <1>1, PipelineInvariantHolds, PTL

\* No output is touched before all inputs have been read (algo.h:14-24).
THEOREM OutputsTouchedAfterReading == Spec => []OutputsNeedReadInputs
<1>1. PipelineInvariant => OutputsNeedReadInputs
  BY DEF PipelineInvariant
<1>2. QED
  BY <1>1, PipelineInvariantHolds, PTL

\* Through the addon the process dies of a missing input only when somebody
\* else has removed it after it was checked, or when exists() cannot tell
\* whether it is there (index.cpp:36-45).
THEOREM MissingInputsAreRefused == Spec => []MissingInputIsRefused
<1>1. PipelineInvariant => MissingInputIsRefused
  <2>1. SUFFICES ASSUME PipelineInvariant, entry = "addon", pc = "terminated"
                 PROVE  MissingInputIsRefused
    BY DEF MissingInputIsRefused
  <2>2. CASE stream = <<>>
    BY <2>1, <2>2 DEF PipelineInvariant, ReadSoFar, OutOfReach, MissingInputIsRefused
  <2>3. CASE stream # <<>>
    <3>1. PICK name \in InputNames : stream[name] # "readable"
      BY <2>1, <2>3 DEF PipelineInvariant, ReadSoFar
    <3>2. stream[name] \in FileStates /\ OpenedExisting(name)
      BY <2>1, <2>3 DEF PipelineInvariant, TypeOK, Checked
    <3>3. stream[name] = "malformed" \/ (stream[name] \in {"missing", "out_of_reach"} /\ name \in changed)
      BY <3>1, <3>2 DEF FileStates, OpenedExisting
    <3>4. QED
      BY <2>3, <3>3 DEF MissingInputIsRefused
  <2>4. QED
    BY <2>2, <2>3
<1>2. QED
  BY <1>1, PipelineInvariantHolds, PTL

\* Statistics never outlive their matching (algo.h:22-24).
THEOREM StatsComeAfterMatching == Spec => []StatsAfterMatching
<1>1. PipelineInvariant => StatsAfterMatching
  BY DEF PipelineInvariant
<1>2. QED
  BY <1>1, PipelineInvariantHolds, PTL

\* A run that ends on its own has written each output whose stream did not fail,
\* but for a matching that the statistics overwrote (algo.h:22-24).
THEOREM ReportedRunsWrote == Spec => []WrittenUnlessFailed
<1>1. PipelineInvariant => WrittenUnlessFailed
  BY Names DEF PipelineInvariant, WrittenSoFar, MatchingDone, StatsDone, WrittenUnlessFailed
<1>2. QED
  BY <1>1, PipelineInvariantHolds, PTL
=============================================================================
