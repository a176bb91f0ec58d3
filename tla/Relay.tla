------------------------------- MODULE Relay --------------------------------
(***************************************************************************)
(* What a thread of src/proxylab/proxy.c does between the request and the  *)
(* log: it reads the response of the origin server with the robust I/O of  *)
(* csapp.c, line by line for texts and buffer by buffer for images, writes *)
(* what it has read to the client and adds up its size.                    *)
(*                                                                         *)
(* Each read and write of the kernel is a step, with any short count.  An  *)
(* interrupted call is called again and changes nothing, so it is no step. *)
(***************************************************************************)
EXTENDS Csapp, Sequences, SequencesExt

CONSTANTS RIO_BUFSIZE,    \* size of rio_buf (8192)
          ResponseBound   \* bound of the model: bytes of a response

ASSUME RelayAssumption == RIO_BUFSIZE \in Nat \ {0} /\ ResponseBound \in Nat

NUL == "0"

Bytes == {NL, "c"}

VARIABLES
  filetype,     \* what get_filetype has made of the path
  origin,       \* what the server sends, as far as it has not been read
  rio_buf,      \* the unread bytes of client_rio
  client_buf,   \* the bytes that the current read call has put there
  unsent,       \* what rio_writen has still to write
  size,
  pc,           \* "read", "write" or "done"
  client,       \* the client has not closed its end
  reset,        \* the server's connection broke
  response,     \* history: all that the server sends
  delivered     \* history: what was written to the client

ends == <<client, reset, response>>
vars == <<filetype, origin, rio_buf, client_buf, unsent, size, pc, ends, delivered>>

\* By the endings that the path has somewhere in it.
get_filetype(endings) ==
  CASE ".html" \in endings -> "text"
    [] ".html" \notin endings /\ endings # {} -> "image"
    [] OTHER -> "text"

Init ==
  /\ \E endings \in SUBSET {".html", ".gif", ".jpg", ".png"} :
       filetype = get_filetype(endings)
  /\ response \in BoundedSeq(Bytes, ResponseBound)
  /\ origin = response
  /\ rio_buf = <<>> /\ client_buf = <<>> /\ unsent = <<>> /\ size = 0
  /\ pc = "read" /\ client = TRUE /\ reset = FALSE /\ delivered = <<>>

----------------------------------------------------------------------------
(* The end of a read call: the loop of doit writes n bytes of client_buf,  *)
(* or ends when n is 0.                                                    *)

Forward(line) ==
  /\ unsent' = line /\ client_buf' = <<>> /\ size' = size + Len(line)
  /\ pc' = IF line = <<>> THEN "done" ELSE "write"
  /\ UNCHANGED <<filetype, ends, delivered>>

Reading(type) == pc = "read" /\ filetype = type

\* An error counts as the end; what this call has read is dropped.
ReadFails ==
  /\ pc = "read" /\ rio_buf = <<>>
  /\ reset' = TRUE /\ pc' = "done" /\ client_buf' = <<>>
  /\ UNCHANGED <<filetype, origin, rio_buf, unsent, size, client, response, delivered>>

----------------------------------------------------------------------------
(* rio_readlineb: lines of at most MAXLINE - 1 bytes through rio_buf.      *)

\* Mutant: the buffer is refilled although it is not empty.
RefillEarly ==
  /\ Reading("text") /\ origin # <<>>
  /\ \E k \in 1 .. RIO_BUFSIZE :
       /\ k <= Len(origin)
       /\ rio_buf' = SubSeq(origin, 1, k) /\ origin' = SubSeq(origin, k + 1, Len(origin))
  /\ UNCHANGED <<filetype, client_buf, unsent, size, pc, ends, delivered>>

Refill ==
  /\ Reading("text") /\ rio_buf = <<>> /\ origin # <<>>
  /\ \E k \in 1 .. RIO_BUFSIZE :
       /\ k <= Len(origin)
       /\ rio_buf' = SubSeq(origin, 1, k) /\ origin' = SubSeq(origin, k + 1, Len(origin))
  /\ UNCHANGED <<filetype, client_buf, unsent, size, pc, ends, delivered>>

\* Mutant: n counts also the terminator of a complete line.
CountedAlways(line) == Append(line, NUL)

(* The bytes that the result n stands for.  n counts from 1: it is right   *)
(* after a newline, and one too large where the line was cut short, so     *)
(* that the terminating NUL is one of them.                                *)
Counted(line) == IF Last(line) = NL THEN line ELSE Append(line, NUL)

\* Mutant: no room is left for the terminator.
IsFullAtEnd(line) == Len(line) = MAXLINE

IsFull(line) == Len(line) = MAXLINE - 1

TakeByte ==
  /\ Reading("text") /\ rio_buf # <<>>
  /\ LET line == Append(client_buf, Head(rio_buf)) IN
     IF Head(rio_buf) = NL \/ IsFull(line)
     THEN Forward(Counted(line))
     ELSE client_buf' = line /\ UNCHANGED <<filetype, unsent, size, pc, ends, delivered>>
  /\ rio_buf' = Tail(rio_buf) /\ UNCHANGED origin

\* Mutant: the end of the file is seen between lines only.
EndOfTextBetweenLines ==
  /\ Reading("text") /\ rio_buf = <<>> /\ origin = <<>> /\ client_buf = <<>>
  /\ Forward(<<>>) /\ UNCHANGED <<origin, rio_buf>>

EndOfText ==
  /\ Reading("text") /\ rio_buf = <<>> /\ origin = <<>>
  /\ Forward(IF client_buf = <<>> THEN <<>> ELSE Counted(client_buf))
  /\ UNCHANGED <<origin, rio_buf>>

----------------------------------------------------------------------------
(* rio_readn: up to MAXLINE bytes, without a buffer.                       *)

ReadImage ==
  /\ Reading("image") /\ origin # <<>>
  /\ \E k \in 1 .. MAXLINE - Len(client_buf) :
       /\ k <= Len(origin)
       /\ origin' = SubSeq(origin, k + 1, Len(origin))
       /\ LET read == client_buf \o SubSeq(origin, 1, k) IN
          IF Len(read) = MAXLINE THEN Forward(read)
          ELSE client_buf' = read /\ UNCHANGED <<filetype, unsent, size, pc, ends, delivered>>
  /\ UNCHANGED rio_buf

EndOfImage ==
  /\ Reading("image") /\ origin = <<>>
  /\ Forward(client_buf) /\ UNCHANGED <<origin, rio_buf>>

----------------------------------------------------------------------------
(* rio_writen.                                                             *)

\* Mutant: a short count is taken for all.
WriteOnce ==
  /\ pc = "write" /\ client
  /\ \E k \in 1 .. Len(unsent) : delivered' = delivered \o SubSeq(unsent, 1, k)
  /\ unsent' = <<>> /\ pc' = "read"
  /\ UNCHANGED <<filetype, origin, rio_buf, client_buf, size, ends>>

Write ==
  /\ pc = "write" /\ client
  /\ \E k \in 1 .. Len(unsent) :
       /\ delivered' = delivered \o SubSeq(unsent, 1, k)
       /\ unsent' = SubSeq(unsent, k + 1, Len(unsent))
  /\ pc' = IF unsent' = <<>> THEN "read" ELSE "write"
  /\ UNCHANGED <<filetype, origin, rio_buf, client_buf, size, ends>>

(* The client has closed.  Rio_writen_w ignores it and doit goes on with   *)
(* the next read.                                                          *)
WriteFails ==
  /\ pc = "write"
  /\ client' = FALSE /\ unsent' = <<>> /\ pc' = "read"
  /\ UNCHANGED <<filetype, origin, rio_buf, client_buf, size, reset, response, delivered>>

\* All that needs no broken connection to the server.
Goes == \/ Refill \/ TakeByte \/ EndOfText \/ ReadImage \/ EndOfImage
        \/ Write \/ WriteFails

Next == Goes \/ ReadFails

Spec == Init /\ [][Next]_vars

(* The thread is scheduled, the server ends its response, and the client   *)
(* reads or closes.  That the server's connection breaks is not assumed.   *)
FairSpec == Spec /\ WF_vars(Goes)

----------------------------------------------------------------------------
(* Properties.                                                             *)

TypeOK ==
  /\ filetype \in {"text", "image"} /\ pc \in {"read", "write", "done"}
  /\ \A s \in {origin, rio_buf, client_buf, response} : s \in Seq(Bytes)
  /\ Len(rio_buf) <= RIO_BUFSIZE
  /\ Len(client_buf) < MAXLINE /\ Len(unsent) <= MAXLINE
  /\ {delivered, unsent} \subseteq Seq(Bytes \cup {NUL})
  /\ size \in Nat /\ client \in BOOLEAN /\ reset \in BOOLEAN

Written == delivered \o unsent

\* What the browser shows of a text.
WithoutNuls(text) ==
  LET upTo[n \in 0 .. Len(text)] ==
        IF n = 0 THEN <<>>
        ELSE IF text[n] = NUL THEN upTo[n - 1] ELSE Append(upTo[n - 1], text[n])
  IN  upTo[Len(text)]

(* However the kernel cuts the stream, no byte of the response is lost,    *)
(* repeated or moved on its way to a client that reads, and the size       *)
(* counts what was written.                                                *)
NothingLost ==
  client =>
    /\ ~ reset => WithoutNuls(Written) \o client_buf \o rio_buf \o origin = response
    /\ IsPrefix(WithoutNuls(Written), response)
    /\ size = Len(Written)

(* A NUL is added only to the last line, when it has no newline, and to    *)
(* the pieces of a line that does not fit into client_buf; to no image.    *)
PadsOnlyCutLines ==
  \A k \in DOMAIN Written :
    Written[k] = NUL =>
      /\ filetype = "text"
      /\ \/ k = Len(Written) /\ origin = <<>> /\ rio_buf = <<>>
         \/ k >= MAXLINE /\ \A j \in k - MAXLINE + 1 .. k - 1 : Written[j] \notin {NL, NUL}

(* The loop ends: at the end of the response, or when a side breaks.       *)
RelayEnds == <>(pc = "done")

(* What the comments of proxy.c say: the response is forwarded, and the    *)
(* size in the log is the number of bytes received.                        *)
ForwardsResponse ==
  pc = "done" /\ client /\ ~ reset => delivered = response /\ size = Len(response)
=============================================================================
