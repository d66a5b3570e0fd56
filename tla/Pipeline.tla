------------------------------ MODULE Pipeline ------------------------------
(***************************************************************************)
(* One run of the program, from its five arguments to its two output       *)
(* files, entered through main of main.cpp or through the command line of  *)
(* cli/index.ts, which calls Match of index.cpp by way of module/run.ts.   *)
(*                                                                         *)
(* Match checks the files and main does not.  Both then do the same:       *)
(* open three inputs, read them one after the other while the instance is  *)
(* built, compute, and write two outputs one after the other.  Others may  *)
(* change the inputs and the folders of the outputs meanwhile, and the     *)
(* process may be killed.  What is computed is the subject of the other    *)
(* modules and only a step here.                                           *)
(*                                                                         *)
(* A definition whose name no action uses (InputsButTheLast, ...) is a     *)
(* deliberately wrong form of the one after it.  PROJECT.json pairs each   *)
(* with the property that detects it.                                      *)
(***************************************************************************)
EXTENDS Integers, Sequences

CONSTANT Paths  \* the paths that may be given for the outputs

Entries == {"main", "addon"}
Inputs == <<"pupils", "students", "balancing_coefficients">>
Outputs == <<"matching", "stats">>
InputNames == {Inputs[i] : i \in DOMAIN Inputs}
OutputNames == {Outputs[i] : i \in DOMAIN Outputs}

ArgumentStates == {"wrong_number", "not_strings", "five_strings"}

\* A file that exists may hold what the json parser or the loader throws at, or
\* may not be opened, which the parser throws at as well.  Whether a file exists
\* cannot be told when a folder above it may not be searched.
FileStates == {"missing", "out_of_reach", "malformed", "readable"}

\* A path without a parent names a file in the working directory.
PathStates ==
  {"no_folder", "out_of_reach", "no_file_name", "no_parent", "not_writable", "writable"}

VARIABLES
  entry,      \* how the program was called ...
  arguments,  \* ... with which arguments ...
  path,       \* ... and with which paths for the outputs
  file,       \* the state of every input file
  place,      \* the state of every output path
  changed,    \* the inputs that someone else changed after their check
  stream,     \* the state each input was in when it was opened
  content,    \* what a path holds: what it held before, an output, or a part of one
  failed,     \* the outputs whose stream has failed, which nobody looks at
  step,       \* how many checks, reads or writes of the current phase are done
  pc

vars == <<entry, arguments, path, file, place, changed, stream, content, failed, step, pc>>
call == <<entry, arguments, path>>
surroundings == <<file, place, changed>>
results == <<content, failed>>

\* A run ends with an error that the caller sees, with a C++ exception that
\* nobody catches, with its success reported, or killed.
Ends == {"refused", "terminated", "reported", "killed"}

Init ==
  /\ entry \in Entries
  /\ arguments \in ArgumentStates
  /\ entry = "main" => arguments # "not_strings"
  /\ path \in [OutputNames -> Paths]
  /\ file \in [InputNames -> FileStates]
  /\ place \in [Paths -> PathStates]
  /\ changed = {}
  /\ stream = <<>>
  /\ content = [p \in Paths |-> "before"]
  /\ failed = {}
  /\ step = 0
  /\ pc = "arguments"

GoToWithoutReset(phase) == pc' = phase /\ UNCHANGED step
GoTo(phase) == pc' = phase /\ step' = 0
DoNext == step' = step + 1 /\ UNCHANGED pc

-----------------------------------------------------------------------------
(* The checks. *)

CheckArguments ==
  /\ pc = "arguments"
  /\ GoTo(IF arguments # "five_strings" THEN "refused"
          ELSE IF entry = "addon" THEN "check_inputs" ELSE "open")
  /\ UNCHANGED <<call, surroundings, stream, results>>

InputsButTheLast == SubSeq(Inputs, 1, Len(Inputs) - 1)
CheckedInputs == Inputs

\* std::filesystem::exists throws when it cannot tell, and nobody catches that.
CheckInput ==
  /\ pc = "check_inputs"
  /\ IF step = Len(CheckedInputs) THEN GoTo("check_outputs") /\ UNCHANGED changed
     ELSE LET name == CheckedInputs[step + 1] IN
       CASE file[name] = "missing" -> GoTo("refused") /\ UNCHANGED changed
         [] file[name] = "out_of_reach" -> GoTo("terminated") /\ UNCHANGED changed
         [] OTHER -> DoNext /\ changed' = changed \ {name}
  /\ UNCHANGED <<call, file, place, stream, results>>

\* exists(parent_path()) is false for a path without a parent.
CheckOutput ==
  /\ pc = "check_outputs"
  /\ IF step = Len(Outputs) THEN GoTo("open")
     ELSE LET state == place[path[Outputs[step + 1]]] IN
       CASE state \in {"no_folder", "no_file_name", "no_parent"} -> GoTo("refused")
         [] state = "out_of_reach" -> GoTo("terminated")
         [] OTHER -> DoNext
  /\ UNCHANGED <<call, surroundings, stream, results>>

-----------------------------------------------------------------------------
(* perform_algo_with_file_names. *)

\* An ifstream that cannot be opened says nothing.
OpenInputs ==
  /\ pc = "open"
  /\ stream' = file
  /\ GoTo("read")
  /\ UNCHANGED <<call, surroundings, results>>

\* init_from_json: json's operator>> throws at a stream that was not opened as
\* at a malformed file.  The coefficients are read when the edges are there.
AllButTheCoefficients == Len(Inputs) - 1
NumRead == Len(Inputs)

ReadInput ==
  /\ pc = "read"
  /\ IF step = NumRead THEN GoTo("compute")
     ELSE IF stream[Inputs[step + 1]] # "readable" THEN GoTo("terminated")
     ELSE DoNext
  /\ UNCHANGED <<call, surroundings, stream, results>>

\* compute_max_cost_matching and test_matching_valid, which only prints.
Compute ==
  /\ pc = "compute"
  /\ GoTo("open_output")
  /\ UNCHANGED <<call, surroundings, stream, results>>

\* An ofstream that is opened empties the file, and one that is not says nothing.
\* Whether the working directory lets a file be written is not looked at.
OpeningSucceeds(p) ==
  CASE place[p] = "writable" -> {TRUE}
    [] place[p] = "no_parent" -> BOOLEAN
    [] OTHER -> {FALSE}

StatsFirst == <<"stats", "matching">>
MatchingTwice == <<"matching", "matching">>
WriteOrder == Outputs

OpenOutput ==
  /\ pc = "open_output"
  /\ LET output == WriteOrder[step + 1] IN
       \E succeeds \in OpeningSucceeds(path[output]) :
         IF succeeds
           THEN /\ content' = [content EXCEPT ![path[output]] = "part"]
                /\ pc' = "write_output"
                /\ UNCHANGED failed
           ELSE /\ failed' = failed \cup {output}
                /\ pc' = "close_output"
                /\ UNCHANGED content
  /\ UNCHANGED <<call, surroundings, stream, step>>

\* A write that fails, on a full disk say, says nothing either.
WriteOutput ==
  /\ pc = "write_output"
  /\ LET output == WriteOrder[step + 1] IN
       \/ content' = [content EXCEPT ![path[output]] = output] /\ UNCHANGED failed
       \/ failed' = failed \cup {output} /\ UNCHANGED content
  /\ pc' = "close_output"
  /\ UNCHANGED <<call, surroundings, stream, step>>

CloseOutput ==
  /\ pc = "close_output"
  /\ IF step + 1 = Len(Outputs)
       THEN GoTo("reported")
       ELSE step' = step + 1 /\ pc' = "open_output"
  /\ UNCHANGED <<call, surroundings, stream, results>>

-----------------------------------------------------------------------------
(* What happens around the run. *)

\* Before the run has opened its inputs, any of them may go away, come back or
\* change; afterwards the run no longer looks for the file.
ChangeInput(name) ==
  /\ pc \notin Ends
  /\ stream = <<>>
  /\ \E state \in FileStates \ {file[name]} : file' = [file EXCEPT ![name] = state]
  /\ changed' = changed \cup {name}
  /\ UNCHANGED <<call, place, stream, results, step, pc>>

\* A file that is open but not read yet may still be written over in place.
RewriteInput(name) ==
  /\ pc = "read"
  /\ name \in {Inputs[i] : i \in step + 1 .. Len(Inputs)}
  /\ stream[name] \in {"malformed", "readable"}
  /\ \E state \in {"malformed", "readable"} \ {stream[name]} :
       stream' = [stream EXCEPT ![name] = state]
  /\ UNCHANGED <<call, surroundings, results, step, pc>>

\* The folder of an output goes away or becomes read-only, or the other way round.
FolderStates == {"no_folder", "out_of_reach", "not_writable", "writable"}

ChangePlace(p) ==
  /\ pc \notin Ends
  /\ place[p] \in FolderStates
  /\ \E state \in FolderStates \ {place[p]} : place' = [place EXCEPT ![p] = state]
  /\ UNCHANGED <<call, file, changed, stream, results, step, pc>>

Kill ==
  /\ pc \notin Ends
  /\ pc' = "killed"
  /\ UNCHANGED <<call, surroundings, stream, results, step>>

Run ==
  \/ CheckArguments
  \/ CheckInput
  \/ CheckOutput
  \/ OpenInputs
  \/ ReadInput
  \/ Compute
  \/ OpenOutput
  \/ WriteOutput
  \/ CloseOutput

Next ==
  \/ Run
  \/ \E name \in InputNames : ChangeInput(name)
  \/ \E name \in InputNames : RewriteInput(name)
  \/ \E p \in Paths : ChangePlace(p)
  \/ Kill

Spec == Init /\ [][Next]_vars
-----------------------------------------------------------------------------
TypeOK ==
  /\ entry \in Entries
  /\ arguments \in ArgumentStates
  /\ path \in [OutputNames -> Paths]
  /\ file \in [InputNames -> FileStates]
  /\ place \in [Paths -> PathStates]
  /\ changed \subseteq InputNames
  /\ stream \in {<<>>} \cup [InputNames -> FileStates]
  /\ content \in [Paths -> {"before", "part"} \cup OutputNames]
  /\ failed \subseteq OutputNames
  /\ step \in 0 .. Len(Inputs)
  /\ pc = "check_outputs" => step <= Len(Outputs)
  /\ pc \in {"open_output", "write_output", "close_output"} => step < Len(Outputs)
  /\ pc \in {"arguments", "check_inputs", "check_outputs", "open", "read", "compute",
             "open_output", "write_output", "close_output"} \cup Ends

\* An output file is touched only by a run that has read all three inputs to
\* their end: a file that cannot be opened or parsed leaves the results of
\* earlier runs alone, whoever called and whatever changes meanwhile
\* (algo.h:17 reads everything before stats.h:54 and 165 open the outputs).
OutputsNeedReadInputs ==
  (\E p \in Paths : content[p] # "before") =>
    /\ stream # <<>>
    /\ \A name \in InputNames : stream[name] = "readable"

\* Through the addon a missing file ends in an error that the caller can catch
\* (index.cpp:36-45).  The process dies of an input only when what it read was
\* malformed or when somebody else took the file away after it was checked; and
\* before anything was opened only because exists() could not tell.
MissingInputIsRefused ==
  entry = "addon" /\ pc = "terminated" =>
    IF stream = <<>>
      THEN \/ \E name \in InputNames : file[name] = "out_of_reach"
           \/ \E output \in OutputNames : place[path[output]] = "out_of_reach"
      ELSE \E name \in InputNames :
             \/ stream[name] = "malformed"
             \/ stream[name] \in {"missing", "out_of_reach"} /\ name \in changed

\* Wherever a run stops, statistics are there only when its matching is, unless
\* writing the matching failed: a kill between the two never leaves statistics
\* of a matching that is lost (algo.h:22-24).
StatsAfterMatching ==
  content[path["stats"]] # "before" /\ path["stats"] # path["matching"] =>
    content[path["matching"]] = "matching" \/ "matching" \in failed

\* A run that comes to its end has written each output in full unless its own
\* stream failed: that one stream failed costs the other output nothing.  Only a
\* matching whose path the statistics share is lost to them (stats.h:54 and 165).
WrittenUnlessFailed ==
  pc = "reported" =>
    \A output \in OutputNames :
      \/ content[path[output]] = output
      \/ output \in failed
      \/ /\ output = "matching" /\ path["stats"] = path["matching"]
         /\ content[path["stats"]] \in {"stats", "part"}

\* What the command line says at its end, "Matching results written to ..."
\* (cli/index.ts:31).  The code does not keep to it: nobody looks at the state
\* of the output streams.
MatchingIsWritten ==
  entry = "addon" /\ pc = "reported" => content[path["matching"]] = "matching"
=============================================================================
