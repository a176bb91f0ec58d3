-------------------------------- MODULE Tiny --------------------------------
(***************************************************************************)
(* The Tiny web server of src/proxylab/tiny.c: one process that serves one *)
(* connection after the other while files come, change and go.             *)
(*                                                                         *)
(* Connections are numbered as they are accepted.  A request is what the   *)
(* code tells apart of it; a response is its status, the Content-length    *)
(* and the length of the body.  Lengths are counted in pages.              *)
(***************************************************************************)
EXTENDS Integers

CONSTANTS Paths,        \* files that requests may name
          Lengths,      \* lengths of files
          CONNECTIONS   \* bound of the model: connections that arrive

VARIABLES
  step,         \* of main, doit and serve_static; "spin" for the endless loop
  accepted,     \* connections accepted, the last one is connfd
  request,      \* method and uri
  filename,     \* pathname of doit, which keeps what an earlier call has left
  filesize,     \* st_size, as stat has found it
  open,         \* descriptors, besides listenfd
  file,         \* the file system: length of each file, or why it has none
  responses,    \* history: what each client was sent
  up            \* the process has not exited

tinyVars == <<step, accepted, request, filename, filesize, open, file, responses, up>>

Missing == -1           \* no such file

Special == -2           \* not a regular file, or not readable

FileStates == Lengths \cup {Missing, Special}

\* TinyUris without an absolute path: "/x", "http://host:80", "http://host".
Relative == "relative"

HostPort == "host:port"

HostOnly == "host"

TinyUris == Paths \cup {Relative, HostPort, HostOnly}

Garbage == "garbage"

EmptyPath == ""

Other == [method |-> "other", uri |-> Relative]

Requests == {Other} \cup [method : {"GET"}, uri : TinyUris]

NoResponse == [status |-> "none", path |-> Garbage, length |-> 0, body |-> 0, closed |-> FALSE]

\* The names of files are none of the markers above.
ASSUME TinyAssumption ==
  /\ Paths \cap {Relative, HostPort, HostOnly, Garbage, EmptyPath} = {}
  /\ Lengths \subseteq Nat /\ CONNECTIONS \in Nat

TinyInit ==
  /\ step = "accept" /\ accepted = 0 /\ request = Other
  /\ filename = Garbage /\ filesize = 0 /\ open = {}
  /\ file \in [Paths -> FileStates]
  /\ responses = [c \in 1 .. CONNECTIONS |-> NoResponse]
  /\ up = TRUE

Goto(next) == step' = next

At(here) == up /\ step = here

(* The wrappers of csapp.c exit on every error; SIGPIPE and SIGSEGV are    *)
(* not handled.                                                            *)
Exit ==
  /\ up' = FALSE /\ open' = {}
  /\ UNCHANGED <<step, accepted, request, filename, filesize, file, responses>>

----------------------------------------------------------------------------
(* main, and the request.                                                  *)

Accept ==
  /\ At("accept") /\ accepted < CONNECTIONS
  /\ accepted' = accepted + 1 /\ open' = open \cup {"connfd"}
  /\ Goto("hostname")
  /\ UNCHANGED <<request, filename, filesize, file, responses, up>>

\* Gethostbyaddr, for a line of output.
FindHostname ==
  /\ At("hostname") /\ Goto("request")
  /\ UNCHANGED <<accepted, request, filename, filesize, open, file, responses, up>>

HostnameUnknown == At("hostname") /\ Exit

(* The request line; without one, method and uri are what the arrays hold. *)
ReadRequest ==
  /\ At("request")
  /\ request' \in Requests
  /\ Goto(IF request'.method = "GET" THEN "headers" ELSE "501")
  /\ UNCHANGED <<accepted, filename, filesize, open, file, responses, up>>

ReadHeaders ==
  /\ At("headers") /\ Goto("parse")
  /\ UNCHANGED <<accepted, request, filename, filesize, open, file, responses, up>>

(* At the end of the file Rio_readlineb leaves buf as it is, and the loop  *)
(* waits for ever for an empty line.                                       *)
HeadersEnd ==
  /\ At("headers") /\ Goto("spin")
  /\ UNCHANGED <<accepted, request, filename, filesize, open, file, responses, up>>

ConnectionBreaks == (At("request") \/ At("headers")) /\ Exit

(* parse_uri.  A host that nothing follows makes hostend NULL; a uri that  *)
(* is not absolute leaves the array alone.                                 *)
ParseUri ==
  /\ At("parse")
  /\ IF request.uri = HostOnly THEN Exit
     ELSE /\ filename' = CASE request.uri \in Paths   -> request.uri
                           [] request.uri = HostPort -> EmptyPath
                           [] OTHER                  -> filename
          /\ Goto("stat")
          /\ UNCHANGED <<accepted, request, filesize, open, file, responses, up>>

----------------------------------------------------------------------------
(* The response.                                                           *)

\* stat on whatever the array holds.
Found(state) ==
  \/ filename \in Paths /\ state = file[filename]
  \/ filename = EmptyPath /\ state = Missing
  \/ filename = Garbage /\ state \in FileStates

\* Mutant: "is_static" for "!is_static".
ParsedAny(uri) == TRUE

\* parse_uri has returned 0.
Parsed(uri) == uri # Relative

Stat ==
  /\ At("stat")
  /\ \E state \in FileStates :
       /\ Found(state)
       /\ Goto(IF state = Missing THEN "404"
               ELSE IF ~ Parsed(request.uri) THEN "close"
               ELSE IF state = Special THEN "403" ELSE "headers out")
       /\ filesize' = IF state \in Lengths THEN state ELSE 0
  /\ UNCHANGED <<accepted, request, filename, open, file, responses, up>>

clienterror ==
  /\ up /\ step \in {"501", "404", "403"}
  /\ responses' = [responses EXCEPT ![accepted].status = step]
  /\ Goto("close")
  /\ UNCHANGED <<accepted, request, filename, filesize, open, file, up>>

WriteHeaders ==
  /\ At("headers out")
  /\ responses' = [responses EXCEPT ![accepted] =
                     [@ EXCEPT !.status = "200", !.path = filename, !.length = filesize]]
  /\ Goto("open")
  /\ UNCHANGED <<accepted, request, filename, filesize, open, file, up>>

\* Mutant: a file that cannot be opened is tried again.
OpenFileRetry ==
  /\ At("open")
  /\ filename \in Paths /\ file[filename] \in Lengths /\ filesize > 0
  /\ open' = open \cup {"srcfd"} /\ Goto("unmap")
  /\ UNCHANGED <<accepted, request, filename, filesize, file, responses, up>>

(* Open and Mmap; mmap refuses an empty mapping.                           *)
OpenFile ==
  /\ At("open")
  /\ IF filename \in Paths /\ file[filename] \in Lengths /\ filesize > 0
     THEN /\ open' = open \cup {"srcfd"} /\ Goto("unmap")
          /\ UNCHANGED <<accepted, request, filename, filesize, file, responses, up>>
     ELSE Exit

\* Mutant: the descriptor of the file stays open.
CloseFileNever ==
  /\ At("unmap")
  /\ Goto("body")
  /\ UNCHANGED <<accepted, request, filename, filesize, open, file, responses, up>>

\* The mapping stays.
CloseFile ==
  /\ At("unmap")
  /\ open' = open \ {"srcfd"} /\ Goto("body")
  /\ UNCHANGED <<accepted, request, filename, filesize, file, responses, up>>

\* Pages past the end of a file that has become shorter cannot be read.
WriteBody ==
  /\ At("body")
  /\ IF file[filename] \in Lengths /\ file[filename] < filesize THEN Exit
     ELSE /\ responses' = [responses EXCEPT ![accepted].body = filesize]
          /\ Goto("close")
          /\ UNCHANGED <<accepted, request, filename, filesize, open, file, up>>

ClientCloses == up /\ step \in {"501", "404", "403", "headers out", "body"} /\ Exit

Close ==
  /\ At("close")
  /\ open' = open \ {"connfd"} /\ Goto("accept")
  /\ responses' = [responses EXCEPT ![accepted].closed = TRUE]
  /\ UNCHANGED <<accepted, request, filename, filesize, file, up>>

----------------------------------------------------------------------------
(* Somebody writes, removes or protects a file.                            *)
FileChanges ==
  /\ up
  /\ \E p \in Paths, state \in FileStates : file' = [file EXCEPT ![p] = state]
  /\ UNCHANGED <<step, accepted, request, filename, filesize, open, responses, up>>

Serves == \/ FindHostname \/ ReadRequest \/ ReadHeaders \/ ParseUri \/ Stat \/ clienterror
          \/ WriteHeaders \/ OpenFile \/ CloseFile \/ WriteBody \/ Close

TinyNext == \/ Accept \/ Serves \/ HostnameUnknown \/ HeadersEnd \/ ConnectionBreaks
        \/ ClientCloses \/ FileChanges

TinySpec == TinyInit /\ [][TinyNext]_tinyVars

----------------------------------------------------------------------------
(* Properties.                                                             *)

TinyTypeOK ==
  /\ step \in {"accept", "hostname", "request", "headers", "spin", "parse", "stat", "501",
             "404", "403", "headers out", "open", "unmap", "body", "close"}
  /\ accepted \in 0 .. CONNECTIONS /\ request \in Requests
  /\ filename \in Paths \cup {Garbage, EmptyPath}
  /\ filesize \in Lengths \cup {0} /\ file \in [Paths -> FileStates]
  /\ open \subseteq {"connfd", "srcfd"} /\ up \in BOOLEAN

(* A response with status 200 is for the file that the request itself      *)
(* names, although the array may hold an earlier name, and when its        *)
(* connection is closed the body is as long as was announced, whatever     *)
(* happens to the file in between.  Descriptors do not pile up.            *)
WholeFileOrNone ==
  /\ \A c \in 1 .. accepted :
       LET r == responses[c] IN
       r.closed /\ r.status = "200" => r.body = r.length /\ r.length > 0
  /\ step # "accept" /\ responses[accepted].status = "200"
       => responses[accepted].path = request.uri
  /\ step = "accept" => open = {}

(* A request is served to its end, unless the client does not end it or a  *)
(* failure ends the server.                                                *)
TinyGoesOn == step = "hostname" ~> step \in {"accept", "spin"} \/ ~ up
=============================================================================
