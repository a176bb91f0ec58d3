------------------------------ MODULE Request -------------------------------
(***************************************************************************)
(* What a thread of src/proxylab/proxy.c does before it connects: it reads *)
(* the request, splits the uri (parse_uri), and collects the client's      *)
(* headers in client_message for the origin server.                        *)
(*                                                                         *)
(* A uri is a sequence of tokens.  The header is a sequence of bytes;      *)
(* Rio_readlineb hands it out in pieces, whole lines or MAXLINE - 1 bytes  *)
(* of longer ones (Relay has its steps).  The request line, as it is read  *)
(* and as it is sent, is one element.                                      *)
(***************************************************************************)
EXTENDS Csapp, Sequences, SequencesExt

CONSTANTS MAXBUF,       \* size of client_message (8192)
          HeaderBound   \* bound of the model: bytes of a header

CR == "\r"

GET == "GET"

Blank == <<CR, NL>>

HTTP == "http:"

SLASH == "/"

COLON == ":"

VARIABLES
  method,
  uri,                        \* the parts of which the client made its uri
  hostname, port, pathname,   \* what parse_uri has found
  buf,                        \* the last line or piece
  client_message,
  input,                      \* what the client sends and has not been read
  at,                         \* step of doit, or how it has ended
  headers                     \* history: all that the client sends after the request line

names == <<hostname, port, pathname>>
requestVars == <<method, uri, names, buf, client_message, input, at, headers>>

----------------------------------------------------------------------------
(* What clients send.                                                      *)

None == "none"

NOTHING == ""

Ports == {None, NOTHING, "8080"}

UriPaths == {<<>>, <<SLASH>>, <<SLASH, "p", COLON, SLASH>>}

Uris == [scheme : {"http", "other"}, host : {"h"}, port : Ports, path : UriPaths]

\* The uri as the program sees it.
Tokens(u) ==
  (IF u.scheme = "http" THEN <<HTTP, SLASH, SLASH>> ELSE <<SLASH, SLASH, SLASH>>)
    \o <<u.host>>
    \o (CASE u.port = None -> <<>> [] u.port = NOTHING -> <<COLON>> [] OTHER -> <<COLON, u.port>>)
    \o u.path

(* What the client sends up to its close: lines that end in CR NL, and     *)
(* perhaps a last one that has no end.                                     *)
Headers ==
  {h \in BoundedSeq({CR, NL, "c"}, HeaderBound) :
     \A k \in DOMAIN h : h[k] = NL => k > 1 /\ h[k - 1] = CR}

AnyUri == [scheme |-> "http", host |-> "h", port |-> None, path |-> <<SLASH>>]

\* Every uri, and every header.
RequestInit ==
  /\ method \in {GET, "other"}
  /\ \/ uri \in Uris /\ headers = Blank
     \/ uri = AnyUri /\ headers \in Headers
  /\ input = headers /\ buf = <<GET>> /\ client_message = <<>>
  /\ hostname = None /\ port = None /\ pathname = <<>>
  /\ at = "line"

----------------------------------------------------------------------------
(* The request line.                                                       *)

\* Any method but GET gets an answer of its own, and doit returns.
NotImplemented ==
  /\ at = "line" /\ method # GET /\ at' = "501"
  /\ UNCHANGED <<method, uri, names, buf, client_message, input, headers>>

\* The places of some tokens after the scheme, which are searched for the first one.
Places(u, set) == {k \in 4 .. Len(Tokens(u)) : Tokens(u)[k] \in set}

First(places) == CHOOSE k \in places : \A j \in places : k <= j

\* atoi of the token at k.
Number(u, k) == IF k <= Len(Tokens(u)) /\ Tokens(u)[k] = "8080" THEN "8080" ELSE "0"

\* Mutant: the path is searched from the beginning of the uri.
PathFromScheme(u) == SubSeq(Tokens(u), 2, Len(Tokens(u)))

PathOf(u) ==
  IF Places(u, {SLASH}) = {} THEN <<SLASH>>
  ELSE SubSeq(Tokens(u), First(Places(u, {SLASH})), Len(Tokens(u)))

(* parse_uri.  Its result is not looked at: a uri that is not absolute     *)
(* leaves port and pathname as they are.  strpbrk finds no end of a host   *)
(* that nothing follows, and the NULL is used.                             *)
SplitUri ==
  /\ at = "line" /\ method = GET
  /\ IF uri.scheme # "http"
     THEN hostname' = NOTHING /\ at' = "headers" /\ UNCHANGED <<port, pathname>>
     ELSE IF Places(uri, {COLON, SLASH}) = {} THEN at' = "crashed" /\ UNCHANGED names
     ELSE LET hostend == First(Places(uri, {COLON, SLASH})) IN
          /\ hostname' = Tokens(uri)[hostend - 1]
          /\ port' = IF Tokens(uri)[hostend] = COLON THEN Number(uri, hostend + 1) ELSE "80"
          /\ pathname' = PathOf(uri)
          /\ at' = "headers"
  /\ client_message' = <<GET>>
  /\ UNCHANGED <<method, uri, buf, input, headers>>

----------------------------------------------------------------------------
(* The header.                                                             *)

\* Where the next piece of the stream ends.
PieceEnd(s) ==
  CHOOSE k \in 1 .. MAXLINE - 1 :
    /\ k <= Len(s)
    /\ k = MAXLINE - 1 \/ k = Len(s) \/ s[k] = NL
    /\ \A j \in 1 .. k - 1 : s[j] # NL

\* What buf holds after a read: at the end of the file, what it held before.
ReadTo(s) == IF s = <<>> THEN buf ELSE SubSeq(s, 1, PieceEnd(s))

Rest(s) == IF s = <<>> THEN s ELSE SubSeq(s, PieceEnd(s) + 1, Len(s))

\* Mutant: the line is appended before the next one is read.
CollectEarly ==
  /\ at = "headers" /\ buf # Blank
  /\ buf' = ReadTo(input) /\ input' = Rest(input)
  /\ client_message' = client_message \o buf
  /\ at' = IF Len(client_message') < MAXBUF THEN at ELSE "overflow"
  /\ UNCHANGED <<method, uri, names, headers>>

(* One turn of the loop.  client_message is written past its end when the  *)
(* header does not fit, or when the client has closed before the empty     *)
(* line and the last piece is appended for ever.                           *)
Collect ==
  /\ at = "headers" /\ buf # Blank
  /\ buf' = ReadTo(input) /\ input' = Rest(input)
  /\ client_message' = client_message \o buf'
  /\ at' = IF Len(client_message') < MAXBUF THEN at ELSE "overflow"
  /\ UNCHANGED <<method, uri, names, headers>>

\* Rio_readlineb exits on an error.
HeaderBreaks ==
  /\ at = "headers" /\ buf # Blank /\ at' = "exit"
  /\ UNCHANGED <<method, uri, names, buf, client_message, input, headers>>

Send ==
  /\ at = "headers" /\ buf = Blank /\ at' = "sent"
  /\ UNCHANGED <<method, uri, names, buf, client_message, input, headers>>

Reads == NotImplemented \/ SplitUri \/ Collect \/ Send

RequestNext == Reads \/ HeaderBreaks

RequestSpec == RequestInit /\ [][RequestNext]_requestVars

----------------------------------------------------------------------------
(* Properties.                                                             *)

\* Lines of the header: their length in bytes, and where they end.
LineEnds == {k \in DOMAIN headers : headers[k] = NL}

LineStart(k) == IF \E j \in LineEnds : j < k
                THEN 1 + (CHOOSE j \in LineEnds : j < k /\ \A i \in LineEnds : i < k => i <= j)
                ELSE 1

(* What the server is sent is the header of the client, nothing twice and  *)
(* nothing left out, as far as its empty line; or, short of that, as far   *)
(* as the first line that leaves an empty line as its last piece, because  *)
(* it has two bytes more than a multiple of MAXLINE - 1: the lines after   *)
(* it are dropped.  A client that closes early never gets a request sent.  *)
HeadersForwarded ==
  at = "sent" =>
    \E k \in LineEnds :
      /\ client_message = <<GET>> \o SubSeq(headers, 1, k)
      /\ (k - LineStart(k) + 1) % (MAXLINE - 1) = 2 % (MAXLINE - 1)
      /\ \A j \in LineEnds : j < k => (j - LineStart(j) + 1) % (MAXLINE - 1) # 2 % (MAXLINE - 1)

(* parse_uri undoes what the client put together: host, port (80 without   *)
(* one, 0 for an empty one) and path from the first slash after the host,  *)
(* whatever colons and slashes the path has.  It crashes for a host with   *)
(* neither port nor path, and finds no host in other uris.                 *)
UriAsSplit ==
  /\ at = "crashed" => uri.port = None /\ uri.path = <<>>
  /\ at \notin {"line", "501", "crashed"} =>
       IF uri.scheme = "http"
       THEN /\ uri.port # None \/ uri.path # <<>>
            /\ hostname = uri.host
            /\ port = CASE uri.port = None -> "80" [] uri.port = NOTHING -> "0" [] OTHER -> uri.port
            /\ pathname = IF uri.path = <<>> THEN <<SLASH>> ELSE uri.path
       ELSE hostname = NOTHING

\* The request is read, refused, or ends the process.
RequestEnds == <>(at \notin {"line", "headers"})
=============================================================================
