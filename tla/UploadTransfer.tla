--------------------------- MODULE UploadTransfer ---------------------------
(***************************************************************************)
(* PATCH /files/{id} of api.py over the upload table of FirmwareUpdate: a  *)
(* client sends its bundle in ranges, each request is a thread that looks  *)
(* the upload up under the lock and opens, writes and answers without it.  *)
(* A connection can break at any byte, a request can be sent again while   *)
(* the first one is still under way, an answer can be lost, and clear,     *)
(* cancel, start and a restart can come in between.                        *)
(*                                                                         *)
(* A client sends one bundle to the ids it got.  The sizes that            *)
(* note_upload_size keeps and the chunk counter are read by nobody.        *)
(***************************************************************************)
EXTENDS FirmwareUpdate, Sequences

CONSTANTS
  Patchers,     \* request threads
  Bytes,
  Bundle,       \* the bytes of the bundle
  Ranges,       \* the ranges the client splits it into (Content-Range)
  Trailer,      \* what follows the data in a body: CRLF and the delimiter
  Crlf, Hole    \* the two bytes that end a line; a byte nothing was written to

Positions == 1..Len(Bundle)

ASSUME BytesAssumption == Bundle \in Seq(Bytes) /\ Trailer \in Seq(Bytes)
ASSUME RangesAssumption ==
  Ranges \subseteq {r \in [first : Positions, last : Positions] : r.first <= r.last}

VARIABLES
  bytes,        \* the contents of the upload files
  ppc, ids, at, \* request threads: where they are, their upload and their range
  data,         \* the data parse_byteranges found in their body
  \* history, read by no action:
  acked         \* ranges answered with 204, for each upload

patchVars == <<ppc, ids, at, data>>
transferVars == <<vars, bytes, patchVars, acked>>

Length(r) == r.last - r.first + 1
Blank == [i \in Positions |-> Hole]
Nowhere == [first |-> 1, last |-> 0]

TransferTypeOK ==
  /\ bytes \in [Fids -> [Positions -> Bytes \cup {Hole}]]
  /\ ppc \in [Patchers -> {"idle", "found", "open"}]
  /\ ids \in [Patchers -> Fids \cup {NoSource}]
  /\ at \in [Patchers -> Ranges \cup {Nowhere}]
  /\ data \in [Patchers -> Seq(Bytes)]
  /\ \A p \in Patchers : Len(data[p]) <= Length(at[p])
  /\ acked \in [Fids -> SUBSET Ranges]

PatchersIdle ==
  /\ ppc = [p \in Patchers |-> "idle"]
  /\ ids = [p \in Patchers |-> NoSource]
  /\ at = [p \in Patchers |-> Nowhere]
  /\ data = [p \in Patchers |-> <<>>]

TransferInit ==
  /\ Init
  /\ bytes = [f \in Fids |-> Blank]
  /\ PatchersIdle
  /\ acked = [f \in Fids |-> {}]

----------------------------------------------------------------------------
(* Mutants: the definitions below have the mistakes the properties must    *)
(* catch.  Nothing else uses them.                                         *)

\* All that follows the head is taken for data.
DataWithTail(r, body) == body

\* The file is opened for writing, not for updating.
PatchTruncates(p) ==
  /\ ppc[p] = "found"
  /\ ids[p] \in files
  /\ bytes' = [bytes EXCEPT ![ids[p]] = Blank]
  /\ ppc' = [ppc EXCEPT ![p] = "open"]
  /\ UNCHANGED <<vars, ids, at, data, acked>>

----------------------------------------------------------------------------
(* parse_byteranges                                                        *)

\* What is left of a body after the head, when the client sent range r.
Sent(r) == SubSeq(Bundle, r.first, r.last) \o Trailer

EndsLine(body) == Len(body) >= 2 /\ SubSeq(body, Len(body) - 1, Len(body)) = Crlf

\* The declared length cuts the trailer off; of a body that is shorter, one CRLF.
Data(r, body) ==
  IF Len(body) >= Length(r) THEN SubSeq(body, 1, Length(r))
  ELSE IF EndsLine(body) THEN SubSeq(body, 1, Len(body) - 2)
  ELSE body

----------------------------------------------------------------------------
(* The request threads                                                     *)

PatchEnds(p) ==
  /\ ppc' = [ppc EXCEPT ![p] = "idle"]
  /\ ids' = [ids EXCEPT ![p] = NoSource]
  /\ at' = [at EXCEPT ![p] = Nowhere]
  /\ data' = [data EXCEPT ![p] = <<>>]

\* The body is read, all of it or as much as came before the connection broke,
\* and the upload looked up: an id that is not registered is a 404.
PatchFinds(p) ==
  /\ ppc[p] = "idle"
  /\ \E f \in uploads, r \in Ranges : \E n \in 0..Len(Sent(r)) :
       /\ ids' = [ids EXCEPT ![p] = f]
       /\ at' = [at EXCEPT ![p] = r]
       /\ data' = [data EXCEPT ![p] = Data(r, SubSeq(Sent(r), 1, n))]
  /\ ppc' = [ppc EXCEPT ![p] = "found"]
  /\ UNCHANGED <<vars, bytes, acked>>

PatchOpens(p) ==
  /\ ppc[p] = "found"
  /\ ids[p] \in files
  /\ ppc' = [ppc EXCEPT ![p] = "open"]
  /\ UNCHANGED <<vars, bytes, ids, at, data, acked>>

\* FileNotFoundError: the thread ends and the client gets no answer.
PatchFindsNoFile(p) ==
  /\ ppc[p] = "found"
  /\ ids[p] \notin files
  /\ PatchEnds(p)
  /\ UNCHANGED <<vars, bytes, acked>>

\* The first n bytes of the data at their offset.  A file that clear has removed
\* takes them and is gone when it is closed.
Puts(p, n) ==
  bytes' = [f \in Fids |-> [i \in Positions |->
    IF f = ids[p] /\ f \in files /\ i \in at[p].first..(at[p].first + n - 1)
    THEN data[p][i - at[p].first + 1]
    ELSE bytes[f][i]]]

\* 204, which the client sees if the connection still stands.
PatchWrites(p) ==
  /\ ppc[p] = "open"
  /\ Puts(p, Len(data[p]))
  /\ \/ /\ Len(data[p]) = Length(at[p]) /\ ids[p] \in files
        /\ acked' = [acked EXCEPT ![ids[p]] = @ \cup {at[p]}]
     \/ UNCHANGED acked
  /\ PatchEnds(p)
  /\ UNCHANGED vars

\* OSError in the middle of the write: no answer.
PatchWriteFails(p) ==
  /\ ppc[p] = "open"
  /\ \E n \in 0..Len(data[p]) : Puts(p, n)
  /\ PatchEnds(p)
  /\ UNCHANGED <<vars, acked>>

----------------------------------------------------------------------------
(* The rest of the process                                                 *)

\* An upload whose file is removed has no contents any more.
FilesFollow ==
  /\ bytes' = [f \in Fids |-> IF f \in files' THEN bytes[f] ELSE Blank]
  /\ acked' = [f \in Fids |-> IF f \in files' THEN acked[f] ELSE {}]

UpdateServed == Served /\ FilesFollow /\ UNCHANGED patchVars

PatchersGone ==
  /\ ContainerRestart \/ Reboot
  /\ FilesFollow
  /\ ppc' = [p \in Patchers |-> "idle"]
  /\ ids' = [p \in Patchers |-> NoSource]
  /\ at' = [p \in Patchers |-> Nowhere]
  /\ data' = [p \in Patchers |-> <<>>]

TransferNext ==
  \/ \E p \in Patchers :
       \/ PatchFinds(p) \/ PatchOpens(p) \/ PatchFindsNoFile(p)
       \/ PatchWrites(p) \/ PatchWriteFails(p)
  \/ UpdateServed
  \/ PatchersGone

TransferSpec == TransferInit /\ [][TransferNext]_transferVars

----------------------------------------------------------------------------
(* Safety                                                                  *)

\* "what rauc was handed is the uploaded bundle, unmodified" (test_own_bundle.py): a
\* range that was answered with 204 is in the file as it was sent, for as long as
\* there is a file, whatever is sent again, late, cut short or while rauc installs.
AcknowledgedBytesKept ==
  \A f \in files : \A r \in acked[f] : \A i \in r.first..r.last : bytes[f][i] = Bundle[i]
=============================================================================
