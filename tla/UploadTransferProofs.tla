------------------------ MODULE UploadTransferProofs ------------------------
(***************************************************************************)
(* Proofs about UploadTransfer, for any bundle, any ranges (overlapping    *)
(* ones too), any number of request threads and uploads, and any faults.   *)
(***************************************************************************)
EXTENDS UploadTransfer, FirmwareUpdateProofs, SequenceTheorems

\* The upload table and its machine do not notice the transfer: all theorems about
\* FirmwareUpdate hold of the composition.
THEOREM TransferIsUpdate == TransferSpec => Spec
<1>1. TransferInit => Init
  BY DEF TransferInit
<1>2. [TransferNext]_transferVars => [Next]_vars
  BY DEF TransferNext, transferVars, PatchFinds, PatchOpens, PatchFindsNoFile, PatchWrites,
     PatchWriteFails, UpdateServed, PatchersGone, Next
<1> QED BY <1>1, <1>2, PTL DEF TransferSpec, Spec

----------------------------------------------------------------------------
(* parse_byteranges                                                        *)

\* The part of a bundle that starts at r, as far as d reaches.
Continues(d, r) == \A j \in 1..Len(d) : d[j] = Bundle[r.first + j - 1]

LEMMA RangesAreBounded ==
  ASSUME NEW r \in Ranges
  PROVE  /\ r.first \in Int /\ r.last \in Int /\ 1 <= r.first /\ r.first <= r.last
         /\ r.last <= Len(Bundle) /\ Length(r) = r.last - r.first + 1
         /\ Length(r) \in Nat
BY RangesAssumption, BytesAssumption DEF Length, Positions

\* What a client sends begins with its range and goes on with the trailer.
LEMMA SentBegins ==
  ASSUME NEW r \in Ranges
  PROVE  /\ Sent(r) \in Seq(Bytes)
         /\ Length(r) <= Len(Sent(r))
         /\ \A j \in 1..Length(r) : Sent(r)[j] = Bundle[r.first + j - 1]
<1> DEFINE s == SubSeq(Bundle, r.first, r.last)
<1>1. \A i \in r.first..r.last : Bundle[i] \in Bytes
  BY RangesAreBounded, BytesAssumption
<1>2. s \in Seq(Bytes) /\ Len(s) = Length(r)
      /\ \A j \in 1..Length(r) : s[j] = Bundle[r.first + j - 1]
  BY <1>1, RangesAreBounded, SubSeqProperties
<1> HIDE DEF s
<1>3. s \o Trailer \in Seq(Bytes) /\ Len(s \o Trailer) = Len(s) + Len(Trailer)
      /\ \A j \in 1..Len(s) : (s \o Trailer)[j] = s[j]
  <2>1. Trailer \in Seq(Bytes) /\ Len(s) \in Nat /\ Len(Trailer) \in Nat
    BY <1>2, BytesAssumption
  <2>2. /\ s \o Trailer \in Seq(Bytes)
        /\ Len(s \o Trailer) = Len(s) + Len(Trailer)
        /\ \A j \in 1..(Len(s) + Len(Trailer)) :
             (s \o Trailer)[j] = IF j <= Len(s) THEN s[j] ELSE Trailer[j - Len(s)]
    BY <1>2, <2>1, ConcatProperties
  <2> QED BY <2>1, <2>2
<1>4. Sent(r) = s \o Trailer
  BY DEF Sent, s
<1> QED BY <1>2, <1>3, <1>4, BytesAssumption

\* However early a body breaks off, what is taken for data is what the range begins
\* with: no byte of the trailer and none of another range.
LEMMA DataContinues ==
  ASSUME NEW r \in Ranges, NEW n \in 0..Len(Sent(r))
  PROVE  /\ Data(r, SubSeq(Sent(r), 1, n)) \in Seq(Bytes)
         /\ Len(Data(r, SubSeq(Sent(r), 1, n))) <= Length(r)
         /\ Continues(Data(r, SubSeq(Sent(r), 1, n)), r)
<1> DEFINE b == SubSeq(Sent(r), 1, n)
           Keeps(m) == /\ SubSeq(b, 1, m) \in Seq(Bytes)
                       /\ Len(SubSeq(b, 1, m)) = m
                       /\ Continues(SubSeq(b, 1, m), r)
<1>1. b \in Seq(Bytes) /\ Len(b) = n /\ \A j \in 1..n : b[j] = Sent(r)[j]
  BY SentBegins
<1>2. \A j \in 1..n : j <= Length(r) => b[j] = Bundle[r.first + j - 1]
  BY <1>1, SentBegins, RangesAreBounded
<1> HIDE DEF b
<1>3. ASSUME NEW m \in 0..n, m <= Length(r) PROVE Keeps(m)
  <2>1. SubSeq(b, 1, m) \in Seq(Bytes) /\ Len(SubSeq(b, 1, m)) = m
        /\ \A j \in 1..m : SubSeq(b, 1, m)[j] = b[j]
    BY <1>1
  <2>2. \A j \in 1..m : j \in 1..n /\ j <= Length(r)
    BY <1>3, RangesAreBounded, SentBegins
  <2>3. \A j \in 1..m : SubSeq(b, 1, m)[j] = Bundle[r.first + j - 1]
    BY <1>2, <2>1, <2>2
  <2>4. Continues(SubSeq(b, 1, m), r)
    BY <2>1, <2>3, Zenon DEF Continues
  <2> QED BY <2>1, <2>4
<1> DEFINE Good(d) == d \in Seq(Bytes) /\ Len(d) <= Length(r) /\ Continues(d, r)
<1>4. ASSUME n >= Length(r) PROVE Good(Data(r, b))
  <2>1. Data(r, b) = SubSeq(b, 1, Length(r))
    BY <1>1, <1>4 DEF Data
  <2>2. Keeps(Length(r))
    BY <1>3, <1>4, RangesAreBounded
  <2> QED BY <2>1, <2>2, RangesAreBounded
<1>5. ASSUME n < Length(r), EndsLine(b) PROVE Good(Data(r, b))
  <2>1. Data(r, b) = SubSeq(b, 1, n - 2) /\ n - 2 \in 0..n
    BY <1>1, <1>5, RangesAreBounded DEF Data, EndsLine
  <2>2. Keeps(n - 2) /\ n - 2 <= Length(r)
    BY <1>3, <1>5, <2>1, RangesAreBounded
  <2> QED BY <2>1, <2>2
<1>6. ASSUME n < Length(r), ~EndsLine(b) PROVE Good(Data(r, b))
  <2>1. Data(r, b) = b
    BY <1>1, <1>6, RangesAreBounded DEF Data
  <2>2. Continues(b, r)
    BY <1>1, <1>2, <1>6, RangesAreBounded DEF Continues
  <2> QED BY <1>1, <1>6, <2>1, <2>2, RangesAreBounded
<1>7. Good(Data(r, b))
  BY <1>4, <1>5, <1>6, RangesAreBounded
<1> QED BY <1>7 DEF b

\* The declared length decides ("use it"): whatever bytes the bundle has, its own
\* delimiter included, a body with all of its range gives exactly the range, and one that
\* was cut short gives a beginning of it that lacks at most one CRLF of what came.
THEOREM DeclaredLengthDecides ==
  ASSUME NEW r \in Ranges, NEW n \in 0..Len(Sent(r))
  PROVE  /\ n >= Length(r) =>
              Data(r, SubSeq(Sent(r), 1, n)) = SubSeq(Bundle, r.first, r.last)
         /\ n < Length(r) =>
              /\ Len(Data(r, SubSeq(Sent(r), 1, n))) \in {n, n - 2}
              /\ Continues(Data(r, SubSeq(Sent(r), 1, n)), r)
<1> DEFINE b == SubSeq(Sent(r), 1, n)
           d == Data(r, b)
           s == SubSeq(Bundle, r.first, r.last)
<1>1. b \in Seq(Bytes) /\ Len(b) = n
  BY SentBegins
<1>2. d \in Seq(Bytes) /\ Continues(d, r)
  BY DataContinues
<1>3. s \in Seq(Bytes) /\ Len(s) = Length(r)
      /\ \A j \in 1..Length(r) : s[j] = Bundle[r.first + j - 1]
  <2>1. \A i \in r.first..r.last : Bundle[i] \in Bytes
    BY RangesAreBounded, BytesAssumption
  <2> QED BY <2>1, RangesAreBounded, BytesAssumption, SubSeqProperties
<1> HIDE DEF b, s
<1>4. n >= Length(r) => Len(d) = Length(r)
  <2>1. n >= Length(r) => d = SubSeq(b, 1, Length(r))
    BY <1>1 DEF Data
  <2> QED BY <1>1, <2>1, RangesAreBounded
<1>5. n < Length(r) => Len(d) \in {n, n - 2}
  <2>1. EndsLine(b) => n >= 2
    BY <1>1 DEF EndsLine
  <2>2. n < Length(r) => d = b \/ (EndsLine(b) /\ d = SubSeq(b, 1, n - 2))
    BY <1>1, RangesAreBounded DEF Data
  <2> QED BY <1>1, <2>1, <2>2
<1> HIDE DEF d
<1>6. n >= Length(r) => d = s
  BY <1>2, <1>3, <1>4, SeqEqual DEF Continues
<1> QED BY <1>2, <1>5, <1>6 DEF b, d, s

----------------------------------------------------------------------------
(* The inductive invariant: a request under way has an upload and a range  *)
(* of the client's, its data is what that range begins with, and what was  *)
(* acknowledged is written, for a removed upload too (which has none).     *)

RequestsBound == \A p \in Patchers : ppc[p] # "idle" => ids[p] \in Fids /\ at[p] \in Ranges
DataIsSent == \A p \in Patchers : Continues(data[p], at[p])
AcknowledgedWritten ==
  \A f \in Fids : \A r \in acked[f] : \A i \in r.first..r.last : bytes[f][i] = Bundle[i]

TInv == TransferTypeOK /\ RequestsBound /\ DataIsSent /\ AcknowledgedWritten

\* A request that ends leaves the other requests as they were.
LEMMA PatchEndsKeeps ==
  ASSUME NEW p \in Patchers, TInv, PatchEnds(p)
  PROVE  /\ ppc' \in [Patchers -> {"idle", "found", "open"}]
         /\ ids' \in [Patchers -> Fids \cup {NoSource}]
         /\ at' \in [Patchers -> Ranges \cup {Nowhere}]
         /\ data' \in [Patchers -> Seq(Bytes)]
         /\ \A q \in Patchers : Len(data'[q]) <= Length(at'[q])
         /\ RequestsBound' /\ DataIsSent'
<1>1. \A q \in Patchers :
        \/ /\ q # p /\ ppc'[q] = ppc[q] /\ ids'[q] = ids[q]
           /\ at'[q] = at[q] /\ data'[q] = data[q]
        \/ ppc'[q] = "idle" /\ at'[q] = Nowhere /\ data'[q] = <<>>
  BY DEF PatchEnds, TInv, TransferTypeOK
<1>2. Len(<<>>) <= Length(Nowhere) /\ \A r : Continues(<<>>, r)
  BY DEF Length, Nowhere, Continues
<1>3. \A q \in Patchers : Len(data'[q]) <= Length(at'[q])
  BY <1>1, <1>2 DEF TInv, TransferTypeOK
<1>4. RequestsBound'
  BY <1>1 DEF TInv, RequestsBound
<1>5. ASSUME NEW q \in Patchers PROVE Continues(data'[q], at'[q])
  BY <1>1, <1>2, Zenon DEF TInv, DataIsSent
<1>6. DataIsSent'
  BY <1>5 DEF DataIsSent, Continues
<1> QED BY <1>3, <1>4, <1>6 DEF PatchEnds, TInv, TransferTypeOK

\* A write puts bytes of the bundle where they belong and touches nothing else.
LEMMA PutsKeeps ==
  ASSUME NEW p \in Patchers, NEW n \in 0..Len(data[p]), TInv, ppc[p] # "idle", Puts(p, n)
  PROVE  /\ bytes' \in [Fids -> [Positions -> Bytes \cup {Hole}]]
         /\ \A f \in Fids : \A i \in Positions :
              bytes'[f][i] = bytes[f][i] \/ bytes'[f][i] = Bundle[i]
         /\ ids[p] \in files => \A i \in at[p].first..(at[p].first + n - 1) :
              i \in Positions => bytes'[ids[p]][i] = Bundle[i]
<1>1. at[p] \in Ranges /\ ids[p] \in Fids /\ data[p] \in Seq(Bytes)
  BY DEF TInv, RequestsBound, TransferTypeOK
<1>2. at[p].first \in Int
  BY <1>1, RangesAreBounded
<1>3. ASSUME NEW i \in Positions, i \in at[p].first..(at[p].first + n - 1)
      PROVE  /\ data[p][i - at[p].first + 1] \in Bytes
             /\ data[p][i - at[p].first + 1] = Bundle[i]
  <2>1. i \in Int /\ i - at[p].first + 1 \in 1..Len(data[p])
    BY <1>1, <1>2, <1>3
  <2>2. data[p][i - at[p].first + 1] = Bundle[at[p].first + (i - at[p].first + 1) - 1]
    BY <2>1 DEF TInv, DataIsSent, Continues
  <2>3. at[p].first + (i - at[p].first + 1) - 1 = i
    BY <1>2, <2>1
  <2> QED BY <1>1, <2>1, <2>2, <2>3
<1>4. \A f \in Fids : bytes'[f] = [i \in Positions |->
        IF f = ids[p] /\ f \in files /\ i \in at[p].first..(at[p].first + n - 1)
        THEN data[p][i - at[p].first + 1] ELSE bytes[f][i]]
  BY DEF Puts
<1>5. ASSUME NEW f \in Fids, NEW i \in Positions
      PROVE  /\ bytes'[f][i] \in Bytes \cup {Hole}
             /\ bytes'[f][i] = bytes[f][i] \/ bytes'[f][i] = Bundle[i]
             /\ f = ids[p] /\ f \in files /\ i \in at[p].first..(at[p].first + n - 1)
                  => bytes'[f][i] = Bundle[i]
  <2>1. CASE f = ids[p] /\ f \in files /\ i \in at[p].first..(at[p].first + n - 1)
    <3>1. bytes'[f][i] = data[p][i - at[p].first + 1]
      BY <1>4, <2>1
    <3> QED BY <1>3, <2>1, <3>1
  <2>2. CASE ~(f = ids[p] /\ f \in files /\ i \in at[p].first..(at[p].first + n - 1))
    <3>1. bytes'[f][i] = bytes[f][i]
      BY <1>4, <2>2
    <3>2. bytes[f][i] \in Bytes \cup {Hole}
      BY DEF TInv, TransferTypeOK
    <3> QED BY <2>2, <3>1, <3>2
  <2> QED BY <2>1, <2>2
<1>6. \A f \in Fids : bytes'[f] \in [Positions -> Bytes \cup {Hole}]
  BY <1>4, <1>5
<1>7. bytes' \in [Fids -> [Positions -> Bytes \cup {Hole}]]
  BY <1>6 DEF Puts
<1> QED BY <1>1, <1>5, <1>7

\* Hence no write can take away what was acknowledged.
LEMMA PutsKeepsAcknowledged ==
  ASSUME NEW p \in Patchers, NEW n \in 0..Len(data[p]), TInv, ppc[p] # "idle", Puts(p, n)
  PROVE  \A f \in Fids : \A r \in acked[f] : \A i \in r.first..r.last : bytes'[f][i] = Bundle[i]
<1>1. \A f \in Fids : \A r \in acked[f] : \A i \in r.first..r.last : i \in Positions
  BY RangesAreBounded, BytesAssumption DEF TInv, TransferTypeOK, Positions
<1> QED BY <1>1, PutsKeeps DEF TInv, AcknowledgedWritten

\* The rest of the process keeps the contents of the files it does not remove.
LEMMA FilesFollowKeeps ==
  ASSUME TInv, FilesFollow
  PROVE  /\ bytes' \in [Fids -> [Positions -> Bytes \cup {Hole}]]
         /\ acked' \in [Fids -> SUBSET Ranges]
         /\ AcknowledgedWritten'
<1>1. Blank \in [Positions -> Bytes \cup {Hole}]
  BY DEF Blank
<1> QED BY <1>1 DEF TInv, TransferTypeOK, FilesFollow, AcknowledgedWritten

----------------------------------------------------------------------------
(* The invariant of the composition                                        *)

LEMMA TransferStart == TransferInit => TInv
<1> SUFFICES ASSUME TransferInit PROVE TInv
  OBVIOUS
<1>1. Len(<<>>) = 0 /\ <<>> \in Seq(Bytes) /\ Length(Nowhere) = 0
      /\ \A r : Continues(<<>>, r)
  BY DEF Length, Nowhere, Continues
<1>2. TransferTypeOK
  BY <1>1 DEF TransferInit, PatchersIdle, TransferTypeOK, Blank
<1>3. RequestsBound /\ AcknowledgedWritten
  BY DEF TransferInit, PatchersIdle, RequestsBound, AcknowledgedWritten
<1>4. \A p \in Patchers : data[p] = <<>>
  BY DEF TransferInit, PatchersIdle
<1>5. DataIsSent
  BY <1>1, <1>4, Zenon DEF DataIsSent
<1> QED BY <1>2, <1>3, <1>5 DEF TInv

LEMMA TransferStep == TypeOK /\ TInv /\ [TransferNext]_transferVars => TInv'
<1> SUFFICES ASSUME TypeOK, TInv, [TransferNext]_transferVars PROVE TInv'
  OBVIOUS
<1>1. ASSUME NEW p \in Patchers, PatchFinds(p) PROVE TInv'
  <2>1. PICK f \in uploads, r \in Ranges : \E n \in 0..Len(Sent(r)) :
          /\ ids' = [ids EXCEPT ![p] = f]
          /\ at' = [at EXCEPT ![p] = r]
          /\ data' = [data EXCEPT ![p] = Data(r, SubSeq(Sent(r), 1, n))]
    BY <1>1 DEF PatchFinds
  <2>2. PICK n \in 0..Len(Sent(r)) : data' = [data EXCEPT ![p] = Data(r, SubSeq(Sent(r), 1, n))]
    BY <2>1
  <2> DEFINE d == Data(r, SubSeq(Sent(r), 1, n))
  <2>3. d \in Seq(Bytes) /\ Len(d) <= Length(r) /\ Continues(d, r)
    BY DataContinues
  <2> HIDE DEF d
  <2>4. f \in Fids
    BY DEF TypeOK
  <2>5. data' = [data EXCEPT ![p] = d] /\ at' = [at EXCEPT ![p] = r]
        /\ ids' = [ids EXCEPT ![p] = f] /\ ppc' = [ppc EXCEPT ![p] = "found"]
    BY <1>1, <2>1, <2>2 DEF d, PatchFinds
  <2>6. TransferTypeOK'
    BY <1>1, <2>3, <2>4, <2>5 DEF TInv, TransferTypeOK, PatchFinds
  <2>7. RequestsBound'
    BY <2>4, <2>5 DEF TInv, TransferTypeOK, RequestsBound
  <2>8. ASSUME NEW q \in Patchers PROVE Continues(data'[q], at'[q])
    <3>1. CASE q = p
      <4>1. data'[q] = d /\ at'[q] = r
        BY <2>5, <3>1 DEF TInv, TransferTypeOK
      <4> QED BY <2>3, <4>1, Zenon
    <3>2. CASE q # p
      <4>1. data'[q] = data[q] /\ at'[q] = at[q]
        BY <2>5, <3>2 DEF TInv, TransferTypeOK
      <4> QED BY <4>1, Zenon DEF TInv, DataIsSent
    <3> QED BY <3>1, <3>2
  <2>9. DataIsSent'
    BY <2>8 DEF DataIsSent, Continues
  <2>10. AcknowledgedWritten'
    BY <1>1 DEF TInv, AcknowledgedWritten, PatchFinds
  <2> QED BY <2>6, <2>7, <2>9, <2>10 DEF TInv
<1>2. ASSUME NEW p \in Patchers, PatchOpens(p) PROVE TInv'
  BY <1>2 DEF TInv, TransferTypeOK, RequestsBound, DataIsSent, Continues, AcknowledgedWritten, PatchOpens
<1>3. ASSUME NEW p \in Patchers, PatchFindsNoFile(p) PROVE TInv'
  BY <1>3, PatchEndsKeeps DEF TInv, TransferTypeOK, AcknowledgedWritten, PatchFindsNoFile
<1>4. ASSUME NEW p \in Patchers, PatchWrites(p) PROVE TInv'
  <2>1. PatchEnds(p) /\ Puts(p, Len(data[p])) /\ ppc[p] = "open"
    BY <1>4 DEF PatchWrites
  <2>2. at[p] \in Ranges /\ ids[p] \in Fids /\ Len(data[p]) \in 0..Len(data[p])
    BY <2>1 DEF TInv, RequestsBound, TransferTypeOK
  <2>3. acked' \in [Fids -> SUBSET Ranges]
    BY <1>4, <2>2 DEF TInv, TransferTypeOK, PatchWrites
  <2>4. TransferTypeOK'
    BY <2>1, <2>2, <2>3, PutsKeeps, PatchEndsKeeps DEF TransferTypeOK
  <2>5. \A f \in Fids : \A r \in acked[f] : \A i \in r.first..r.last : bytes'[f][i] = Bundle[i]
    BY <2>1, <2>2, PutsKeepsAcknowledged
  <2>6. ASSUME Len(data[p]) = Length(at[p]), ids[p] \in files
        PROVE  \A i \in at[p].first..at[p].last : bytes'[ids[p]][i] = Bundle[i]
    <3>1. at[p].first + Len(data[p]) - 1 = at[p].last
          /\ \A i \in at[p].first..at[p].last : i \in Positions
      BY <2>2, <2>6, RangesAreBounded, BytesAssumption DEF Positions
    <3> QED BY <2>1, <2>2, <2>6, <3>1, PutsKeeps
  <2>7. \A f \in Fids : \A r \in acked'[f] :
          r \in acked[f] \/ (f = ids[p] /\ r = at[p] /\ Len(data[p]) = Length(at[p]) /\ ids[p] \in files)
    BY <1>4 DEF PatchWrites, TInv, TransferTypeOK
  <2>8. AcknowledgedWritten'
    BY <2>5, <2>6, <2>7 DEF AcknowledgedWritten
  <2> QED BY <2>1, <2>4, <2>8, PatchEndsKeeps DEF TInv
<1>5. ASSUME NEW p \in Patchers, PatchWriteFails(p) PROVE TInv'
  <2>1. PICK n \in 0..Len(data[p]) : Puts(p, n)
    BY <1>5 DEF PatchWriteFails
  <2>2. PatchEnds(p) /\ ppc[p] # "idle" /\ acked' = acked
    BY <1>5 DEF PatchWriteFails
  <2>3. AcknowledgedWritten'
    BY <2>1, <2>2, PutsKeepsAcknowledged DEF AcknowledgedWritten
  <2>4. TransferTypeOK'
    BY <2>1, <2>2, PutsKeeps, PatchEndsKeeps DEF TInv, TransferTypeOK
  <2> QED BY <2>2, <2>3, <2>4, PatchEndsKeeps DEF TInv
<1>6. CASE UpdateServed
  BY <1>6, FilesFollowKeeps DEF UpdateServed, patchVars, TInv, TransferTypeOK, RequestsBound,
     DataIsSent, Continues
<1>7. CASE PatchersGone
  <2>1. FilesFollow
    BY <1>7 DEF PatchersGone
  <2>2. ppc' = [p \in Patchers |-> "idle"] /\ ids' = [p \in Patchers |-> NoSource]
        /\ at' = [p \in Patchers |-> Nowhere] /\ data' = [p \in Patchers |-> <<>>]
    BY <1>7 DEF PatchersGone
  <2>3. Len(<<>>) = 0 /\ <<>> \in Seq(Bytes) /\ Length(Nowhere) = 0
    BY DEF Length, Nowhere
  <2>4. TransferTypeOK'
    BY <2>1, <2>2, <2>3, FilesFollowKeeps DEF TransferTypeOK
  <2>5. RequestsBound' /\ DataIsSent'
    BY <2>2, <2>3 DEF RequestsBound, DataIsSent, Continues
  <2> QED BY <2>1, <2>4, <2>5, FilesFollowKeeps DEF TInv
<1>8. CASE UNCHANGED transferVars
  BY <1>8 DEF transferVars, patchVars, vars, fileVars, TInv, TransferTypeOK, RequestsBound, DataIsSent,
     Continues, AcknowledgedWritten
<1> QED BY <1>1, <1>2, <1>3, <1>4, <1>5, <1>6, <1>7, <1>8 DEF TransferNext

LEMMA TransferInvariant == TransferSpec => [](TypeOK /\ TInv)
<1>1. TransferSpec => []TypeOK
  BY TransferIsUpdate, TypeCorrect, PTL
<1> QED BY <1>1, TransferStart, TransferStep, PTL DEF TransferSpec

\* The request threads only ever hold uploads that were handed out, ranges the client
\* declared and no more data than such a range has (do_PATCH, parse_byteranges).
THEOREM TransferTypeCorrect == TransferSpec => []TransferTypeOK
<1>1. TInv => TransferTypeOK
  BY DEF TInv
<1> QED BY <1>1, TransferInvariant, PTL

\* "what rauc was handed is the uploaded bundle": what do_PATCH answered with 204 is in
\* the file, for any bundle and any ranges, any number of requests and any faults.
THEOREM AcknowledgedAreKept == TransferSpec => []AcknowledgedBytesKept
<1>1. TypeOK /\ TInv => AcknowledgedBytesKept
  BY DEF TypeOK, TInv, AcknowledgedWritten, AcknowledgedBytesKept
<1> QED BY <1>1, TransferInvariant, PTL
=============================================================================
