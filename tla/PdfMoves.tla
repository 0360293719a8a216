------------------------------ MODULE PdfMoves ------------------------------
(***************************************************************************)
(* Two programs that move a PDF with rsync: pdf_test.l, which reads what   *)
(* pdfinfo reports of it, and the sorter under pdf_testing, which reads    *)
(* what the user types.  rsync copies the file and then removes it, and    *)
(* may be cut short before either: both programs close the pipe it writes  *)
(* its progress to without reading it.                                     *)
(***************************************************************************)
EXTENDS Integers, Sequences, FiniteSets

CONSTANTS Started  \* the program, the length of the file's name, what it reads

\* The lines of pdfinfo that a rule is for and any other one; keys likewise.
Reported == {"JavaScript", "Encrypted", "title"}
Typed == {"0", "1", "q", "x"}

ASSUME StartedAssumption ==
  \A j \in Started :
    /\ j.name \in Nat
    /\ \/ j.program = "filter" /\ j.input \in Seq(Reported)
       \/ j.program = "sorter" /\ j.input \in Seq(Typed)

VARIABLES job,     \* [program, name, input]
          pc,
          read,    \* how much of the input is matched
          moving,  \* the directory rsync was last told
          rsync,   \* how far rsync came
          places,  \* where the file is
          cuts     \* how often rsync was cut short between its two steps

pdf == <<job, pc, read, moving, rsync, places, cuts>>

Home == "."

PdfInit ==
  /\ job \in Started
  /\ pc = "main"
  /\ read = 0
  /\ moving = Home
  /\ rsync = "none"
  /\ places = {Home}
  /\ cuts = 0

-----------------------------------------------------------------------------
\* What surrounds the name in a command, and the array it is built in; each is
\* ended by a NUL.
Command(around, array) == [around |-> around, array |-> array]
Fits(cmd) == job.name + cmd.around < cmd.array

Viewer == IF job.program = "filter" THEN Command(8, 256) ELSE Command(5, 256)

Directory(word) ==
  CASE word = "JavaScript" -> "/dev/shm/javascript_pdfs/"
    [] word = "Encrypted" -> "/dev/shm/encrypted_pdfs/"
    [] word = "0" -> "trash/"
    [] word = "1" -> "keep/"
    [] OTHER -> Home

RsyncTo(word) ==
  CASE word = "JavaScript" -> Command(44 + 26, 128)
    [] word = "Encrypted" -> Command(44 + 25, 128)
    [] OTHER -> Command(11 + 29, 256)

\* pdf_test.l first writes through a pointer it never set: it dies of it, or
\* goes on.  The sorter gives pclose what popen returned for its viewer.
Main ==
  /\ pc = "main"
  /\ \/ job.program = "filter" /\ pc' = "killed"
     \/ job.program = "sorter" /\ Fits(Viewer) /\ pc' = "killed"
     \/ job.program = "filter" /\ job.name >= 256 /\ pc' = "exit"
     \/ ~(job.program = "filter" /\ job.name >= 256)
        /\ pc' = IF Fits(Viewer) THEN "scan" ELSE "overflow"
  /\ UNCHANGED <<job, read, moving, rsync, places, cuts>>

Word == job.input[read + 1]
Unread == read < Len(job.input)

\* popen may fail, and pclose takes what it returned.
Popen ==
  /\ pc = "scan" /\ Unread /\ Directory(Word) # Home
  /\ read' = read + 1
  /\ \/ Fits(RsyncTo(Word)) /\ pc' = "pclose" /\ rsync' = "started" /\ moving' = Directory(Word)
     \/ Fits(RsyncTo(Word)) /\ pc' = "killed" /\ UNCHANGED <<rsync, moving>>
     \/ ~Fits(RsyncTo(Word)) /\ pc' = "overflow" /\ UNCHANGED <<rsync, moving>>
  /\ UNCHANGED <<job, places, cuts>>

Quit ==
  /\ pc = "scan" /\ Unread /\ Word = "q"
  /\ read' = read + 1
  /\ pc' = "exit"
  /\ UNCHANGED <<job, moving, rsync, places, cuts>>

Other ==
  /\ pc = "scan" /\ Unread /\ Directory(Word) = Home /\ Word # "q"
  /\ read' = read + 1
  /\ UNCHANGED <<job, pc, moving, rsync, places, cuts>>

EndOfInput ==
  /\ pc = "scan" /\ ~Unread
  /\ pc' = "exit"
  /\ UNCHANGED <<job, read, moving, rsync, places, cuts>>

-----------------------------------------------------------------------------
\* rsync, with --remove-source-files.
Copy ==
  /\ rsync = "started" /\ Home \in places
  /\ places' = places \cup {moving}
  /\ rsync' = "copied"
  /\ UNCHANGED <<job, pc, read, moving, cuts>>

\* An rsync that is not told to remove what it copied.
KeepSource == {}
Sources == {Home}

RemoveSource ==
  /\ rsync = "copied"
  /\ places' = places \ Sources
  /\ rsync' = "ended"
  /\ UNCHANGED <<job, pc, read, moving, cuts>>

\* Cut short, or nothing to do.
Stop ==
  /\ rsync \in {"started", "copied"}
  /\ rsync' = "ended"
  /\ cuts' = IF rsync = "copied" THEN cuts + 1 ELSE cuts
  /\ UNCHANGED <<job, pc, read, moving, places>>

\* pclose waits for rsync.  The sorter returns then.
Pclose ==
  /\ pc = "pclose" /\ rsync = "ended"
  /\ pc' = IF job.program = "filter" THEN "scan" ELSE "exit"
  /\ UNCHANGED <<job, read, moving, rsync, places, cuts>>

PdfNext == Main \/ Popen \/ Quit \/ Other \/ EndOfInput \/ Copy \/ RemoveSource \/ Stop \/ Pclose

PdfSpec == PdfInit /\ [][PdfNext]_pdf

-----------------------------------------------------------------------------
\* The directories of the reports matched so far.
Asked == {Directory(job.input[k]) : k \in 1..read} \ {Home}

\* The file is never lost, is only in directories of reports that were matched
\* (keys that were typed), and in a second place only for an rsync cut short
\* between its two steps: of several reports the first that rsync acts on
\* decides, and the others find nothing to move.  A filter that comes to its end
\* with a name of 59 bytes or more has matched no report, and only a name of
\* exactly 58 bytes lets it move the file and overflow after that
\* (pdf_test.l:116-139).
FirstMoveDecides ==
  /\ places # {}
  /\ places \subseteq Asked \cup {Home}
  /\ rsync # "copied" => Cardinality(places) <= 1 + cuts
  /\ pc = "exit" /\ job.program = "filter" /\ job.name >= 59 => Asked = {}
  /\ pc = "overflow" /\ places # {Home} => job.name = 58
=============================================================================
