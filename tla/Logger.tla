------------------------------- MODULE Logger -------------------------------
(***************************************************************************)
(* The log (logger.c) over an output stream.  A message is printed in      *)
(* three parts, its place in the source, its text and a newline, each of   *)
(* which the stream may cut off.                                           *)
(***************************************************************************)
EXTENDS OutputStream

CONSTANTS
  Place,    \* Place[level]: "[label in file:line func()]: "
  Newline,  \* the text of a newline
  MaxLogged \* bound: characters on stderr

LOG_INFO == 1
LOG_WARN == 2
LOG_ERROR == 3
Level == {LOG_INFO, LOG_WARN, LOG_ERROR}

ASSUME LogAssumption == Place \in [Level -> Seq(Char)] /\ Newline \in Seq(Char)

VARIABLES
  log_level,  \* messages below it are dropped
  log_os,     \* the stream, or NULL for stderr
  stderr      \* what went to stderr

logVars == <<log_level, log_os, stderr>>
vars == <<streamVars, logVars>>

Line(level, message) == Place[level] \o message \o Newline

\* slip: the newline is left to the message
TwoParts(s, level, message) == os_vprintf(os_vprintf(s, Place[level]), message)

Printed(s, level, message) ==
  os_vprintf(os_vprintf(os_vprintf(s, Place[level]), message), Newline)

log_setup(level, stream) ==
  /\ log_level' = level
  /\ log_os' = stream
  /\ UNCHANGED <<stderr, streamVars>>

log_printf(level, message) ==
  /\ level >= log_level
  /\ \/ /\ log_os = "NULL"
        /\ Len(stderr \o Line(level, message)) <= MaxLogged
        /\ stderr' = stderr \o Line(level, message)
        /\ UNCHANGED streamVars
     \/ /\ log_os = "os"
        /\ Len(printed \o Line(level, message)) <= MaxPrinted
        /\ os' = Printed(os, level, message)
        /\ printed' = printed \o Line(level, message)
        /\ touched' = TRUE
        /\ UNCHANGED <<stderr, freed>>
  /\ UNCHANGED <<log_level, log_os>>

Init ==
  /\ StreamInit
  /\ log_level = 0
  /\ log_os = "NULL"
  /\ stderr = << >>

\* A message below the level changes nothing.
Next ==
  \/ StreamNext /\ UNCHANGED logVars
  \/ \E level \in Level, stream \in {"NULL", "os"} : log_setup(level, stream)
  \/ \E level \in Level, message \in Text : log_printf(level, message)

Spec == Init /\ [][Next]_vars

-----------------------------------------------------------------------------
TypeOK ==
  /\ StreamTypeOK
  /\ log_level \in {0} \cup Level
  /\ log_os \in {"NULL", "os"}
  /\ stderr \in Seq(Char)

\* A print is all of its text up to the end of the block, whatever the texts
\* before it were, and the three parts of a message are the same as one print
\* of the whole line: the stream under the log, the program's own prints
\* between two messages included, is a sink of texts (os_printf, os_clear,
\* os_destroy, log_printf).
Sink == INSTANCE TextSink WITH
  Text <- Text \cup {Line(level, message) : level \in Level, message \in Text},
  Limits <- Nat,
  Unlimited <- -1,
  text <- IF os.stream THEN os.file
          ELSE Kept(os.buffer_size, SubSeq(os.buffer_ptr, 1, os.buffer_filled)),
  limit <- CASE os.stream -> -1
             [] os.buffer_size > 0 -> os.buffer_size - 1
             [] OTHER -> 0
ImplementsTextSink == Sink!Spec
=============================================================================
