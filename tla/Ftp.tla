--------------------------------- MODULE Ftp ---------------------------------
(***************************************************************************)
(* The ECS data tab and its FTP client: classes ECSDataTab and             *)
(* FTPConnection, with the server and the lines to it.                     *)
(*                                                                         *)
(* Everything runs on the main thread.  FTPConnection takes every line of  *)
(* the expected class that comes before the line is silent for a success,  *)
(* whatever command it answers, and throws its socket away when there is   *)
(* none.  It logs every command and reply, and logFTPMessage runs the main *)
(* loop: a click can start a handler in the middle of another one, which   *)
(* goes on when the later one is done.  Handlers are therefore a stack.    *)
(***************************************************************************)
EXTENDS Integers, Sequences, SequencesExt, FiniteSetsExt

CONSTANTS
  NumFiles,    \* the files on the server, in the order of their names
  MaxClicks,   \* bound on confirmed clicks
  MaxConns,    \* bound on connections made
  MaxFaults,   \* bound on refusals, failing sends, channels, files, cut transfers
  MaxLates     \* bound on replies that come after the timeout

ASSUME FtpAssumption ==
  /\ NumFiles \in Nat \ {0} /\ MaxClicks \in Nat /\ MaxConns \in Nat
  /\ MaxFaults \in Nat /\ MaxLates \in Nat

Files == 1..NumFiles
Conns == 1..MaxConns

VARIABLES
  mFtp,       \* ECSDataTab::m_ftp, as the number of the object; 0 when NULL
  made,       \* how many FTPConnections have been made
  conn,       \* of each: "open"; "null", m_ftpConn is NULL; "freed", it is deleted
  rows,       \* m_model: the files listed (one listed twice is one row here)
  selected,   \* m_selection
  stack,      \* the handlers under way, the running one last
  owed,       \* of each connection: commands the server has not answered yet
  inbox,      \* of each connection: classes of the replies not read yet
  data,       \* of each connection: what its last data channel holds
  server,     \* the files on the server
  local,      \* of each file, the copy in the daily directory: "none"; "part", cut
              \* off or of something else; "short", but for its end; "whole"
  deleted,    \* history: the files logged as deleted
  fetched,    \* history: the files whose copy was logged as fetched
  broken,     \* "" or how the program has left what C++ defines
  clicks, faults, lates, \* counters of the bounds
  nested,     \* history: a handler was started inside another one
  cut,        \* history: a transfer was cut off by a timeout or a lost channel
  lost        \* history: a file operation failed after the last Refresh

netVars == <<owed, inbox, data, server>>
saidVars == <<local, deleted, fetched>>
ftpVars == <<mFtp, made, conn, rows, selected, stack, netVars, saidVars, broken,
             clicks, faults, lates, nested, cut, lost>>

Top == Last(stack)
Below == Front(stack)
Going == stack # <<>> /\ broken = ""
Open == conn[Top.ftp] = "open"

FtpInit ==
  /\ mFtp = 0 /\ made = 0 /\ conn = [g \in Conns |-> "none"]
  /\ rows = {} /\ selected = {} /\ stack = <<>>
  /\ owed = [g \in Conns |-> <<>>] /\ inbox = [g \in Conns |-> <<>>]
  /\ data = [g \in Conns |-> {}] /\ server = Files
  /\ local = [f \in Files |-> "none"] /\ deleted = {} /\ fetched = {}
  /\ broken = "" /\ clicks = 0 /\ faults = 0 /\ lates = 0
  /\ nested = FALSE /\ cut = FALSE /\ lost = FALSE

Fault == faults < MaxFaults /\ faults' = faults + 1

-----------------------------------------------------------------------------
(* Clicks: between events, or where a handler logs                         *)

MayClick ==
  /\ broken = "" /\ clicks < MaxClicks /\ clicks' = clicks + 1
  /\ stack # <<>> => Top.phase \in {"log", "line"}
  /\ nested' = (nested \/ stack # <<>>)

Handler(op, g, cmd, file, phase) ==
  [op |-> op, ftp |-> g, cmd |-> cmd, file |-> file, phase |-> phase,
   good |-> FALSE, names |-> {}]

\* Faulty: m_ftp is left as it was.
LeftDangling == mFtp

\* m_ftp when the connection it points to has been deleted.
Cleared == 0

\* onRefreshButton up to the constructor's first wait.  m_ftp is NULL until
\* the constructor has returned.
Refresh ==
  /\ MayClick /\ made < MaxConns /\ made' = made + 1
  /\ rows' = {} /\ selected' = {} /\ lost' = FALSE
  /\ LET freed == [g \in Conns |-> IF g = mFtp THEN "freed" ELSE conn[g]] IN
       \/ /\ conn' = [freed EXCEPT ![made + 1] = "open"]
          /\ owed' = [owed EXCEPT ![made + 1] = <<[cmd |-> "greeting", file |-> 0]>>]
          /\ stack' = Append(stack, Handler("refresh", made + 1, "greeting", 0, "wait"))
          /\ UNCHANGED faults
       \/ Fault /\ conn' = freed /\ UNCHANGED <<owed, stack>>
  /\ mFtp' = Cleared
  /\ broken' = IF mFtp # 0 /\ conn[mFtp] = "freed" THEN "freed" ELSE broken
  /\ UNCHANGED <<inbox, data, server, saidVars, lates, cut>>

\* onExportButton or onDeleteButton for the rows selected, once confirmed.
Begin(op, cmd) ==
  /\ MayClick /\ mFtp # 0
  /\ \E chosen \in (SUBSET rows) \ {{}} :
       /\ selected' = chosen
       /\ stack' = Append(stack, Handler(op, mFtp, cmd, Min(chosen), "log"))
  /\ UNCHANGED <<mFtp, made, conn, rows, netVars, saidVars, broken, faults, lates,
                 cut, lost>>

Export == Begin("export", "type")
Delete == Begin("delete", "dele")

-----------------------------------------------------------------------------
(* Where a handler goes on                                                 *)

Goes(to) == stack' = Append(Below, to)
Sends(cmd) == Goes([Top EXCEPT !.cmd = cmd, !.phase = "log", !.good = FALSE])

\* The handler returns because an FTP operation has returned -1.
GivesUp ==
  /\ stack' = Below
  /\ lost' = (lost \/ Top.op # "refresh")
  /\ UNCHANGED <<selected, broken>>

\* Export and Delete go on with the next selected row; the iterator of a row
\* that a nested handler has erased is good for nothing.
Advances(here) ==
  LET later == {f \in here : f > Top.file} IN
  /\ IF Top.file \notin rows
     THEN broken' = "row" /\ UNCHANGED stack
     ELSE /\ UNCHANGED broken
          /\ IF later = {}
             THEN stack' = Below
             ELSE Goes([Top EXCEPT !.file = Min(later), !.phase = "log",
                                   !.good = FALSE,
                                   !.cmd = IF Top.op = "export" THEN "type" ELSE "dele"])
  /\ UNCHANGED lost

\* FTPSendCommand and FTPValidateResponse drop the socket; onRefreshButton
\* deletes the connection when it is not logged in and in the directory yet.
\* In the constructor, what m_ftp was set to meanwhile is forgotten.
Drops ==
  /\ IF Top.op = "refresh" /\ Top.cmd \in {"greeting", "user", "pass", "cwd"}
     THEN conn' = [conn EXCEPT ![Top.ftp] = "freed"] /\ mFtp' = Cleared
     ELSE conn' = [conn EXCEPT ![Top.ftp] = "null"] /\ UNCHANGED mFtp
  /\ inbox' = [inbox EXCEPT ![Top.ftp] = <<>>]
  /\ GivesUp

-----------------------------------------------------------------------------
(* FTPSendCommand and FTPValidateResponse                                  *)

Rest == <<made, rows, saidVars, clicks, nested, cut>>

\* A handler goes on after it has logged, and its object or socket is gone.
UsesNone ==
  /\ Going /\ Top.phase \in {"log", "line"} /\ ~Open
  /\ broken' = conn[Top.ftp]
  /\ UNCHANGED <<mFtp, conn, selected, stack, netVars, faults, lates, lost, Rest>>

Send ==
  /\ Going /\ Top.phase = "log" /\ Open
  /\ \/ /\ owed' = [owed EXCEPT ![Top.ftp] =
                      Append(@, [cmd |-> Top.cmd, file |-> Top.file])]
        /\ Goes([Top EXCEPT !.phase = IF Top.cmd = "nlst" THEN "names" ELSE "wait"])
        /\ UNCHANGED <<mFtp, conn, inbox, faults, lost, selected, broken>>
     \/ Fault /\ Drops /\ UNCHANGED owed
  /\ UNCHANGED <<data, server, lates, Rest>>

\* Faulty: the class of the reply is not looked at.
ExpectedAny(cmd, class) == TRUE

Expected(cmd, class) == class = IF cmd = "user" THEN 3 ELSE 2

\* accept returns a line, which is logged.
Reads ==
  /\ Going /\ Top.phase \in {"wait", "line"} /\ Open /\ inbox[Top.ftp] # <<>>
  /\ inbox' = [inbox EXCEPT ![Top.ftp] = Tail(@)]
  /\ Goes([Top EXCEPT !.phase = "line",
                      !.good = @ \/ Expected(Top.cmd, Head(inbox[Top.ftp]))])
  /\ UNCHANGED <<mFtp, conn, selected, owed, data, server, broken, faults, lates,
                 lost, Rest>>

\* Faulty: accept waits for as long as it takes.
NeverTimesOut == FALSE /\ UNCHANGED lates

\* No line has come for the timeout: every reply has, or one is late.
TimesOut ==
  IF owed[Top.ftp] = <<>> THEN UNCHANGED lates
  ELSE lates < MaxLates /\ lates' = lates + 1

Validates ==
  /\ Going /\ Top.phase \in {"wait", "line"} /\ Open /\ inbox[Top.ftp] = <<>>
  /\ TimesOut

\* FTPValidateResponse returns -1.
Fails ==
  /\ Validates /\ ~Top.good /\ Drops
  /\ UNCHANGED <<owed, data, server, faults, Rest>>

\* The commands that follow one that has succeeded.
Following(cmd) ==
  CASE cmd = "greeting" -> "user" [] cmd = "user" -> "pass" [] cmd = "pass" -> "cwd"
    [] cmd = "cwd" -> "type" [] cmd = "type" -> "pasv" [] cmd = "size" -> "mdtm"
    [] OTHER -> ""

\* FTPValidateResponse returns 0 and another command follows.  After the
\* password the constructor returns and m_ftp is set.
Succeeds ==
  /\ Validates /\ Top.good /\ Following(Top.cmd) # ""
  /\ Sends(Following(Top.cmd))
  /\ mFtp' = IF Top.cmd = "pass" THEN Top.ftp ELSE mFtp
  /\ UNCHANGED <<conn, selected, netVars, broken, faults, lost, Rest>>

\* pasv has succeeded: a data channel is opened, or cannot be.  FTPList drops its
\* socket when the reply names no host and port, FTPGetFile does not.
Channel ==
  /\ Validates /\ Top.good /\ Top.cmd = "pasv"
  /\ data' = [data EXCEPT ![Top.ftp] = {}]
  /\ \/ Sends(IF Top.op = "refresh" THEN "nlst" ELSE "retr")
        /\ UNCHANGED <<mFtp, conn, inbox, selected, broken, faults, lost>>
     \/ Fault /\ GivesUp /\ UNCHANGED <<mFtp, conn, inbox>>
     \/ Top.op = "refresh" /\ Fault /\ Drops
  /\ UNCHANGED <<owed, server, Rest>>

-----------------------------------------------------------------------------
(* FTPList                                                                 *)

\* A date has come: on to the next name.
Dated ==
  /\ Validates /\ Top.good /\ Top.cmd = "mdtm"
  /\ Goes([Top EXCEPT !.phase = "names", !.names = @ \cup {Top.file}])
  /\ UNCHANGED <<mFtp, conn, selected, netVars, broken, faults, lost, Rest>>

NextName ==
  /\ Going /\ Top.phase = "names" /\ data[Top.ftp] # {}
  /\ LET name == Min(data[Top.ftp]) IN
       /\ data' = [data EXCEPT ![Top.ftp] = @ \ {name}]
       /\ Goes([Top EXCEPT !.cmd = "size", !.file = name, !.phase = "log",
                           !.good = FALSE])
  /\ UNCHANGED <<mFtp, conn, selected, owed, inbox, server, broken, faults, lates,
                 lost, Rest>>

\* The channel ends, or nothing has come on it for the timeout.  Nobody waits
\* for the answer to nlst.
Listed ==
  /\ Going /\ Top.phase = "names" /\ data[Top.ftp] = {} /\ TimesOut
  /\ rows' = rows \cup Top.names /\ stack' = Below
  /\ UNCHANGED <<mFtp, made, conn, selected, netVars, saidVars, broken, clicks,
                 faults, nested, cut, lost>>

-----------------------------------------------------------------------------
(* FTPGetFile and FTPDeleteFile                                            *)

\* retr has been answered, after the whole file as the server sees it: the
\* local file is made and the channel read until it ends or is silent.  Nobody
\* looks at fclose, which may fail and lose what was not written yet.
Fetches ==
  /\ Validates /\ Top.good /\ Top.cmd = "retr"
  /\ \/ /\ \/ Top.file \in data[Top.ftp] /\ local' = [local EXCEPT ![Top.file] = "whole"]
              /\ UNCHANGED <<faults, cut>>
           \/ Top.file \notin data[Top.ftp] /\ local' = [local EXCEPT ![Top.file] = "part"]
              /\ UNCHANGED <<faults, cut>>
           \/ Fault /\ cut' = TRUE /\ local' = [local EXCEPT ![Top.file] = "part"]
           \/ /\ Top.file \in data[Top.ftp] /\ Fault /\ UNCHANGED cut
              /\ local' = [local EXCEPT ![Top.file] = "short"]  \* fclose fails
        /\ fetched' = fetched \cup {Top.file}
        /\ Advances(selected) /\ UNCHANGED selected
     \/ /\ Fault /\ GivesUp /\ UNCHANGED cut  \* fopen or fwrite fails
        /\ \/ UNCHANGED <<local, fetched>>
           \/ /\ local' = [local EXCEPT ![Top.file] = "none"]
              /\ fetched' = fetched \ {Top.file}
  /\ data' = [data EXCEPT ![Top.ftp] = {}]
  /\ UNCHANGED <<mFtp, made, conn, rows, owed, inbox, server, deleted, clicks, nested>>

Deletes ==
  /\ Validates /\ Top.good /\ Top.cmd = "dele"
  /\ deleted' = deleted \cup {Top.file}
  /\ rows' = rows \ {Top.file} /\ selected' = selected \ {Top.file}
  /\ Advances(selected)
  /\ UNCHANGED <<mFtp, made, conn, netVars, local, fetched, clicks, faults, nested, cut>>

-----------------------------------------------------------------------------
(* The server                                                              *)

ServerRest == <<mFtp, made, conn, rows, selected, stack, saidVars, broken, clicks,
                lates, nested, cut, lost>>

Says(g, class) ==
  /\ owed' = [owed EXCEPT ![g] = Tail(@)]
  /\ inbox' = [inbox EXCEPT ![g] = IF conn[g] = "open" THEN Append(@, class) ELSE @]

\* Names or a file are sent; the answer comes when they are through.
Transfer(g) ==
  /\ owed[g] # <<>>
  /\ \/ Head(owed[g]).cmd = "nlst" /\ data' = [data EXCEPT ![g] = server]
     \/ /\ Head(owed[g]).cmd = "retr" /\ Head(owed[g]).file \in server
        /\ data' = [data EXCEPT ![g] = {Head(owed[g]).file}]
  /\ owed' = [owed EXCEPT ![g][1].cmd = "sent"]
  /\ UNCHANGED <<inbox, server, faults, ServerRest>>

Answer(g) ==
  /\ owed[g] # <<>>
  /\ LET cmd == Head(owed[g]).cmd  file == Head(owed[g]).file IN
       \/ /\ cmd \notin {"nlst", "retr"}
          /\ cmd \in {"size", "mdtm", "dele"} => file \in server
          /\ server' = IF cmd = "dele" THEN server \ {file} ELSE server
          /\ Says(g, IF cmd = "user" THEN 3 ELSE 2) /\ UNCHANGED faults
       \/ /\ cmd \in {"retr", "size", "mdtm", "dele"} /\ file \notin server
          /\ Says(g, 5) /\ UNCHANGED <<server, faults>>
       \/ Fault /\ Says(g, 5) /\ UNCHANGED server
  /\ UNCHANGED <<data, ServerRest>>

Client ==
  \/ UsesNone \/ Send \/ Reads \/ Fails \/ Succeeds \/ Channel
  \/ Dated \/ NextName \/ Listed \/ Fetches \/ Deletes

Serve == \E g \in Conns : Transfer(g) \/ Answer(g)

FtpNext == Refresh \/ Export \/ Delete \/ Client \/ Serve

\* The main thread goes on with a handler, and the server with its commands.
FtpSpec == FtpInit /\ [][FtpNext]_ftpVars /\ WF_ftpVars(Client) /\ WF_ftpVars(Serve)

-----------------------------------------------------------------------------
(* Properties                                                              *)

Commands == {"greeting", "user", "pass", "cwd", "type", "pasv", "nlst", "size", "mdtm",
             "retr", "dele", "sent"}

Handlers ==
  [op : {"refresh", "export", "delete"}, ftp : Conns, cmd : Commands,
   file : 0..NumFiles, phase : {"log", "wait", "line", "names"}, good : BOOLEAN,
   names : SUBSET Files]

Pending == [cmd : Commands, file : 0..NumFiles]

\* Every variable keeps its type: the members of ECSDataTab and FTPConnection,
\* the handlers under way and the lines to the server.
FtpTypeOK ==
  /\ mFtp \in 0..MaxConns /\ made \in 0..MaxConns
  /\ conn \in [Conns -> {"none", "open", "null", "freed"}]
  /\ rows \subseteq Files /\ selected \subseteq rows /\ server \subseteq Files
  /\ stack \in Seq(Handlers)
  /\ owed \in [Conns -> Seq(Pending)] /\ inbox \in [Conns -> Seq({2, 3, 5})]
  /\ data \in [Conns -> SUBSET Files]
  /\ local \in [Files -> {"none", "part", "short", "whole"}]
  /\ deleted \subseteq Files /\ fetched \subseteq Files
  /\ broken \in {"", "null", "freed", "row"}
  /\ clicks \in 0..MaxClicks /\ faults \in 0..MaxFaults /\ lates \in 0..MaxLates
  /\ nested \in BOOLEAN /\ cut \in BOOLEAN /\ lost \in BOOLEAN

\* What onDeleteButton and onExportButton log is so, although
\* FTPValidateResponse never asks which command a reply answers: the file is
\* deleted; the copy is the file, as far as the disk took it: only an fclose that
\* fails unnoticed leaves one without its end.  What is logged may be wrong in
\* another way only when a reply was late, a handler was started inside another
\* one, or a transfer was cut off.
LoggedIsSo ==
  lates = 0 /\ ~nested =>
    /\ deleted \cap server = {}
    /\ ~cut => \A f \in fetched : local[f] \in {"short", "whole"}

\* The handlers go on with objects, sockets and rows that are there, unless a
\* click came in while one of them was logging; and without one, a missing
\* socket is used only after a file operation failed, before the next Refresh.
UsesWhatIsThere ==
  /\ broken \in {"freed", "row"} => nested
  /\ broken = "null" => lost \/ nested

\* Every handler of the tab comes to an end, whatever the server answers or
\* not, and gives the main loop back.
OperationsEnd == Going ~> ~Going
=============================================================================
