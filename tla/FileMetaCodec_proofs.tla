------------------------- MODULE FileMetaCodec_proofs -------------------------
(***************************************************************************)
(* Proofs about the FileMeta JSON codec for all addresses, URIs and sizes. *)
(***************************************************************************)
EXTENDS FileMetaCodec, TLAPS

(* The parts of CodecAssumption, cited one by one: a proof that sees the   *)
(* quantified assumption as a whole is lost on it.                         *)
LEMMA NumBound == MaxNum \in Nat
BY CodecAssumption

LEMMA ZeroURI == "" \in URIs
BY CodecAssumption

LEMMA BadDistinct == Bad # Absent /\ Bad # Null
BY CodecAssumption

LEMMA Sentinels ==
    \A v \in {Absent, Null, Bad} :
        v \notin Addrs /\ v \notin URIs /\ v \notin Nat /\ v # Nil
BY CodecAssumption, Zenon

(* The decoded value is always a FileMeta.                                 *)
MetaTyped == meta \in FileMeta /\ err \in BOOLEAN

(* Encoding writes no Bad value and no Absent key, and writes Null only   *)
(* for a nil author address.                                               *)
LEMMA MarshalShape ==
    ASSUME NEW f \in FileMeta
    PROVE  /\ MarshalJSON(f)["AuthorAddr"] = IF f.AuthorAddr = Nil THEN Null ELSE f.AuthorAddr
           /\ MarshalJSON(f)["URI"] = f.URI
           /\ MarshalJSON(f)["RawSize"] = f.RawSize
           /\ MarshalJSON(f)["BlockNum"] = f.BlockNum
BY DEF MarshalJSON, FileMeta, Keys

(* Encoding a FileMeta and decoding it into the zero value gives it back.  *)
THEOREM RoundTripAll ==
    ASSUME NEW f \in FileMeta
    PROVE  UnmarshalJSON(MarshalJSON(f), ZeroMeta) = [meta |-> f, err |-> FALSE]
<1> DEFINE o == MarshalJSON(f)
<1>0. /\ f.AuthorAddr \in Addrs \cup {Nil} /\ f.URI \in URIs
      /\ f.RawSize \in Nat /\ f.BlockNum \in Nat
  BY NumBound DEF FileMeta
<1>1. ~\E k \in Keys : o[k] = Bad
  <2>1. o["AuthorAddr"] # Bad
    BY <1>0, MarshalShape, Sentinels, BadDistinct
  <2>2. o["URI"] # Bad /\ o["RawSize"] # Bad /\ o["BlockNum"] # Bad
    BY <1>0, MarshalShape, Sentinels
  <2>3. QED
    BY <2>1, <2>2 DEF Keys
<1>2. [k \in Keys |-> IF o[k] \in {Absent, Null} THEN ZeroMeta[k] ELSE o[k]] = f
  <2>1. o["AuthorAddr"] \in {Absent, Null} => ZeroMeta["AuthorAddr"] = f.AuthorAddr
    BY <1>0, MarshalShape, Sentinels DEF ZeroMeta
  <2>2. ~(o["AuthorAddr"] \in {Absent, Null}) => o["AuthorAddr"] = f.AuthorAddr
    BY MarshalShape
  <2>3. ~(o["URI"] \in {Absent, Null}) /\ ~(o["RawSize"] \in {Absent, Null})
          /\ ~(o["BlockNum"] \in {Absent, Null})
    BY <1>0, MarshalShape, Sentinels
  <2>4. f = [k \in Keys |-> f[k]]
    BY DEF FileMeta, Keys
  <2>5. QED
    BY <2>1, <2>2, <2>3, <2>4, MarshalShape DEF Keys
<1>3. QED
  BY <1>1, <1>2 DEF UnmarshalJSON

(* Every reachable value round-trips (the property the runs check).        *)
THEOREM RoundTripAlways == Spec => []RoundTrip
<1>1. Init => MetaTyped
  <2>1. ZeroMeta \in FileMeta
    <3>1. Nil \in Addrs \cup {Nil} /\ 0 \in 0..MaxNum
      BY NumBound
    <3>2. QED
      BY <3>1, ZeroURI DEF ZeroMeta, FileMeta
  <2>2. QED
    BY <2>1 DEF Init, MetaTyped
<1>2. MetaTyped /\ [Next]_vars => MetaTyped'
  <2> SUFFICES ASSUME MetaTyped, NEW o \in Inputs, Decode(o) PROVE MetaTyped'
    BY DEF Next, vars, MetaTyped
  <2>1. CASE \E k \in Keys : o[k] = Bad
    BY <2>1 DEF Decode, UnmarshalJSON, MetaTyped
  <2>2. CASE ~\E k \in Keys : o[k] = Bad
    BY <2>2 DEF Decode, UnmarshalJSON, MetaTyped, Inputs, JsonValues,
              FieldValues, FileMeta, Keys
  <2>3. QED
    BY <2>1, <2>2
<1>3. MetaTyped => RoundTrip
  BY RoundTripAll DEF MetaTyped, RoundTrip
<1>4. QED
  BY <1>1, <1>2, <1>3, PTL DEF Spec

=============================================================================
