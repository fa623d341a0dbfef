----------------------------- MODULE ConfigLoad -----------------------------
(***************************************************************************)
(* config_load_file (config.c): the controller's config file is read,      *)
(* parsed by cJSON, checked field by field into a copy of the defaults and *)
(* adopted as a whole, or not at all, while an editor may be writing it.   *)
(*                                                                         *)
(* The file is a sequence of tokens.  An editor replaces it at once (by a  *)
(* rename), or truncates it and writes the new text token by token.  The   *)
(* loader takes the size first and then reads, in as many pieces as read   *)
(* returns, up to that size; what it has read is its own.  Numbers are     *)
(* whole: a fraction is dropped before an integer field is checked, and    *)
(* the ranges of the others are far from it.                               *)
(***************************************************************************)
EXTENDS Integers, CJsonParse

CONSTANTS
  Value,        \* the value of each number token
  Versions,     \* texts an editor writes
  FixedTexts,   \* texts of a file that nobody edits
  MaxRows,      \* MOTOR_MAX_ROWS_PER_BLOCK (200)
  ShortReads    \* bound: where a read that does not return all may end

ASSUME LoaderAssumption ==
  /\ DOMAIN Value = Numbers
  /\ \A n \in Numbers : Value[n] \in Int
  /\ MaxRows \in Nat \ {0}
  /\ Versions \cup FixedTexts \subseteq Seq(Tokens)
  /\ ShortReads \subseteq Nat

VARIABLES
  pc,           \* where config_load_file is; "idle" between two calls
  file,         \* the file
  target,       \* the text its last editor writes or has written
  size,         \* st_size
  buf,          \* what the reads have returned so far; got is its length
  staged,       \* the local copy cfg
  out,          \* *out, the caller's configuration
  source        \* history: the text that out was taken from, <<>> if none

loaderVars == <<pc, size, buf, staged, out, source>>
fileVars == <<file, target>>
vars == <<parserVars, loaderVars, fileVars>>

-----------------------------------------------------------------------------
(* FIELDS                                                                  *)

PiFields == {"spi_bus", "spi_dev", "spi_mode", "spi_clock_hz", "spi_cpha",
             "spi_word_width", "spi_idle_insert", "rt_priority", "cpu_affinity",
             "dataready_pin"}
ScalingFields == {"current_scale", "current_offset", "vib_scale", "vib_offset",
                  "rpm_scale", "rpm_offset"}
StmFields == {"block_rows", "source", "run_state", "sample_rate_hz", "imu_rate_hz"}
Fields == PiFields \cup ScalingFields \cup StmFields

\* The ends of the wide ranges.
SlowestClock == 100000
FastestClock == 50000000
FastestSampling == 100000
LargestScale == 1000000

Calibration == -LargestScale .. LargestScale

\* The values a field may have, the further checks after its range included.
Allowed == [
  spi_bus |-> 0 .. 7, spi_dev |-> 0 .. 7, spi_mode |-> 0 .. 3,
  spi_clock_hz |-> SlowestClock .. FastestClock, spi_cpha |-> 0 .. 1,
  spi_word_width |-> {8, 16, 32}, spi_idle_insert |-> 0 .. 1,
  rt_priority |-> 1 .. 63, cpu_affinity |-> -1 .. 7, dataready_pin |-> 0 .. 27,
  block_rows |-> 1 .. MaxRows, source |-> {1}, run_state |-> {0, 1},
  sample_rate_hz |-> {0} \cup 100 .. FastestSampling, imu_rate_hz |-> {0} \cup 10 .. 1000,
  current_scale |-> Calibration, current_offset |-> Calibration,
  vib_scale |-> Calibration, vib_offset |-> Calibration,
  rpm_scale |-> Calibration, rpm_offset |-> Calibration ]

\* Fields whose value may be spelled out.
Spelled == [source |-> [adc |-> 1], run_state |-> [run |-> 1, stop |-> 0]]

\* CONFIG_DEFAULTS
Defaults == [
  spi_bus |-> 0, spi_dev |-> 0, spi_mode |-> 0, spi_clock_hz |-> 4000000,
  spi_cpha |-> 0, spi_word_width |-> 8, spi_idle_insert |-> 0, rt_priority |-> 30,
  cpu_affinity |-> -1, dataready_pin |-> 27,
  current_scale |-> 1, current_offset |-> 0, vib_scale |-> 1, vib_offset |-> 0,
  rpm_scale |-> 1, rpm_offset |-> 0,
  block_rows |-> MaxRows, source |-> 1, run_state |-> 1,
  sample_rate_hz |-> 20000, imu_rate_hz |-> 1000 ]

\* Fault: a number is not checked against its range.
ConvertedUnchecked(f, type, value) ==
  CASE type = "Number" -> {Value[value]}
    [] type = "String" /\ f \in DOMAIN Spelled ->
         {Spelled[f][v] : v \in {value} \cap DOMAIN Spelled[f]}
    [] OTHER -> {}

\* j_int, j_uint, j_float, j_source and j_run_state on a member that is there:
\* the value it is converted to, if it is valid.
Converted(f, type, value) ==
  CASE type = "Number" -> {Value[value]} \cap Allowed[f]
    [] type = "String" /\ f \in DOMAIN Spelled ->
         {Spelled[f][v] : v \in {value} \cap DOMAIN Spelled[f]}
    [] OTHER -> {}

-----------------------------------------------------------------------------
(* THE FILE                                                                *)

Init ==
  /\ ParserIdle
  /\ pc = "idle" /\ size = 0 /\ buf = <<>> /\ source = <<>>
  /\ target \in Versions \cup FixedTexts /\ file = target
  /\ staged = Defaults /\ out = Defaults

\* A call may take the size now and read later; in between, and between two reads,
\* the file may change.
Editable == pc \in {"idle", "sized"} /\ target \in Versions

\* By a rename; a call that has the old file open goes on reading that one.
Replace ==
  /\ Editable /\ pc = "idle"
  /\ \E v \in Versions : file' = v /\ target' = v
  /\ UNCHANGED <<parserVars, loaderVars>>

Truncate ==
  /\ Editable
  /\ file' = <<>> /\ target' \in Versions
  /\ UNCHANGED <<parserVars, loaderVars>>

WriteOn ==
  /\ Editable /\ Len(file) < Len(target)
  /\ file' = SubSeq(target, 1, Len(file) + 1)
  /\ UNCHANGED <<target, parserVars, loaderVars>>

-----------------------------------------------------------------------------
(* THE LOADER                                                              *)

\* open and fstat; an empty file is refused.  A call that fails here or finds
\* no memory for the text returns without a trace.
TakeSize ==
  /\ pc = "idle" /\ Len(file) > 0
  /\ pc' = "sized" /\ size' = Len(file)
  /\ UNCHANGED <<buf, staged, out, source, parserVars, fileVars>>

\* What has been read once a read has gone on to position n of the file as it is.
ReadTo(n) == buf \o SubSeq(file, Len(buf) + 1, n)

\* A read returns fewer bytes than were asked for, and another one follows.
ReadSome ==
  /\ pc = "sized"
  /\ \E n \in ShortReads :
       /\ Len(buf) < n /\ n < size /\ n <= Len(file)
       /\ buf' = ReadTo(n)
  /\ UNCHANGED <<pc, size, staged, out, source, parserVars, fileVars>>

\* A read fails, or is at the end of a file that has become shorter.
ReadShort ==
  /\ pc = "sized"
  /\ pc' = "idle" /\ size' = 0 /\ buf' = <<>>
  /\ UNCHANGED <<staged, out, source, parserVars, fileVars>>

\* A read returns the rest; the text is parsed.
ReadAll ==
  /\ pc = "sized" /\ Len(file) >= size
  /\ ParseBegin(Append(ReadTo(size), "NUL"))
  /\ pc' = "parse" /\ size' = 0 /\ buf' = <<>>
  /\ UNCHANGED <<staged, out, source, fileVars>>

ParserStep ==
  /\ pc = "parse"
  /\ Parse
  /\ UNCHANGED <<loaderVars, fileVars>>

\* The parser forgets everything but the document.
ParserDone == text' = <<>> /\ offset' = 1 /\ depth' = 0 /\ stack' = <<>> /\ oom' = FALSE

\* cJSON_Parse returns NULL.
ParseFailed ==
  /\ pc = "parse" /\ step = "parsed" /\ root = Null
  /\ pc' = "idle" /\ step' = "idle"
  /\ ParserDone
  /\ UNCHANGED <<root, heap, size, buf, staged, out, source, fileVars>>

\* It returns a document; the copy starts from the defaults.
ParseSucceeded ==
  /\ pc = "parse" /\ step = "parsed" /\ root # Null
  /\ pc' = "pi" /\ staged' = Defaults
  /\ UNCHANGED <<size, buf, out, source, parserVars, fileVars>>

\* The object of that name in an object; Null if it is missing or no object.
Section(object, name) ==
  LET i == GetObjectItem(heap, object, name)
  IN  IF i # Null /\ heap[i].type = "Object" THEN i ELSE Null

\* A member among the fields of an object is there and invalid.
Bad(object, fields) ==
  object # Null /\ \E f \in fields :
    LET i == GetObjectItem(heap, object, f)
    IN  i # Null /\ Converted(f, heap[i].type, heap[i].value) = {}

\* The valid members among the fields of an object, over cfg.
Taken(cfg, object, fields) ==
  [f \in DOMAIN cfg |->
     LET i == IF object = Null \/ f \notin fields THEN Null
              ELSE GetObjectItem(heap, object, f)
         v == IF i = Null THEN {} ELSE Converted(f, heap[i].type, heap[i].value)
     IN  IF v = {} THEN cfg[f] ELSE CHOOSE x \in v : TRUE]

\* The Pi tier and the scaling in it.
LoadPi ==
  /\ pc = "pi"
  /\ LET pi == Section(root, "pi")
         sc == IF pi = Null THEN Null ELSE Section(pi, "scaling")
     IN  /\ staged' = Taken(Taken(staged, pi, PiFields), sc, ScalingFields)
         /\ pc' = IF Bad(pi, PiFields) \/ Bad(sc, ScalingFields) THEN "bad" ELSE "stm"
  /\ UNCHANGED <<size, buf, out, source, parserVars, fileVars>>

\* The STM tier.
LoadStm ==
  /\ pc = "stm"
  /\ LET stm == Section(root, "stm")
     IN  /\ staged' = Taken(staged, stm, StmFields)
         /\ pc' = IF Bad(stm, StmFields) THEN "bad" ELSE "commit"
  /\ UNCHANGED <<size, buf, out, source, parserVars, fileVars>>

\* The document is deleted; a good copy is handed out.
Return ==
  /\ pc \in {"commit", "bad"} /\ pc' = "idle"
  /\ heap' = Deleted(heap, root) /\ root' = Null /\ step' = "idle"
  /\ ParserDone
  /\ IF pc = "commit" THEN out' = staged /\ source' = text
                       ELSE UNCHANGED <<out, source>>
  /\ staged' = Defaults
  /\ UNCHANGED <<size, buf, fileVars>>

Load ==
  \/ TakeSize \/ ReadSome \/ ReadShort \/ ReadAll
  \/ ParserStep \/ ParseFailed \/ ParseSucceeded
  \/ LoadPi \/ LoadStm \/ Return

Edit == Replace \/ Truncate \/ WriteOn

Next == Load \/ Edit

Spec == Init /\ [][Next]_vars

-----------------------------------------------------------------------------
(* PROPERTIES                                                              *)

TypeOK ==
  /\ ParserTypeOK
  /\ pc \in {"idle", "sized", "parse", "pi", "stm", "commit", "bad"}
  /\ target \in Versions \cup FixedTexts
  /\ Len(file) <= Len(target) /\ file = SubSeq(target, 1, Len(file))
  /\ size \in Nat /\ buf \in Seq(Tokens) /\ Len(buf) <= size
  /\ pc # "sized" => buf = <<>>
  /\ source \in Seq(Tokens)
  /\ DOMAIN out = Fields /\ DOMAIN staged = Fields
  /\ \A f \in Fields : out[f] \in Allowed[f] /\ staged[f] \in Allowed[f]

=============================================================================
