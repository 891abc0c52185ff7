---------------------------- MODULE FileMetaCodec ----------------------------
(***************************************************************************)
(* The generated JSON codec of FileMeta (src/torrentfs/gen_filemeta_json.go) *)
(* applied to one FileMeta value that is decoded into again and again.     *)
(*                                                                         *)
(* A JSON object is a function from the four field names to a value, to    *)
(* Absent (key missing), to Null, or to Bad (a value of the wrong JSON type *)
(* or out of range, or a syntax error).  Key matching, number and string   *)
(* formatting are those of encoding/json and are not modelled.             *)
(***************************************************************************)
EXTENDS Naturals

CONSTANTS
    Addrs,      \* author addresses
    Nil,        \* the nil *common.Address
    URIs,       \* URIs, "" (the zero value) among them
    MaxNum,     \* largest RawSize and BlockNum in the model
    Absent, Null, Bad

ASSUME CodecAssumption ==
    /\ "" \in URIs
    /\ MaxNum \in Nat
    /\ Nil \notin Addrs
    /\ \A v \in {Absent, Null, Bad} : v \notin Addrs \cup URIs \cup Nat \cup {Nil}
    /\ Bad \notin {Absent, Null}

Keys == {"AuthorAddr", "URI", "RawSize", "BlockNum"}

(* The values a FileMeta field may hold.                                   *)
FieldValues(k) ==
    CASE k = "AuthorAddr" -> Addrs \cup {Nil}
      [] k = "URI"        -> URIs
      [] OTHER            -> 0..MaxNum

FileMeta == [AuthorAddr : Addrs \cup {Nil}, URI : URIs,
             RawSize : 0..MaxNum, BlockNum : 0..MaxNum]

ZeroMeta == [AuthorAddr |-> Nil, URI |-> "", RawSize |-> 0, BlockNum |-> 0]

(* What a key of a JSON object handed to the decoder may carry.            *)
JsonValues(k) == (FieldValues(k) \ {Nil}) \cup {Absent, Null, Bad}

(* The JSON objects a decoder may be handed.                               *)
Inputs == {[AuthorAddr |-> a, URI |-> u, RawSize |-> r, BlockNum |-> b] :
             a \in JsonValues("AuthorAddr"), u \in JsonValues("URI"),
             r \in JsonValues("RawSize"), b \in JsonValues("BlockNum")}

VARIABLES
    meta,       \* the FileMeta decoded into
    err         \* the error UnmarshalJSON last returned

vars == <<meta, err>>

(* Mutant: the encoder leaves BlockNum out of the object.                  *)
MarshalJSON_noBlockNum(f) ==
    [k \in Keys |-> CASE k = "BlockNum" -> Absent
                      [] k = "AuthorAddr" /\ f.AuthorAddr = Nil -> Null
                      [] OTHER -> f[k]]

(* MarshalJSON: every field is written; a nil AuthorAddr is written null.  *)
MarshalJSON(f) ==
    [k \in Keys |-> IF k = "AuthorAddr" /\ f.AuthorAddr = Nil THEN Null ELSE f[k]]

(* UnmarshalJSON: json.Unmarshal into the pointer-field struct dec fails   *)
(* on any bad value and then f is left alone; otherwise each field that    *)
(* decoded to a non-nil pointer (present and not null) overwrites f's.     *)
UnmarshalJSON(o, f) ==
    IF \E k \in Keys : o[k] = Bad
    THEN [meta |-> f, err |-> TRUE]
    ELSE [meta |-> [k \in Keys |-> IF o[k] \in {Absent, Null} THEN f[k] ELSE o[k]],
          err  |-> FALSE]

Init ==
    /\ meta = ZeroMeta
    /\ err = FALSE

(* A caller decodes a JSON object into the same FileMeta.                  *)
Decode(o) ==
    /\ meta' = UnmarshalJSON(o, meta).meta
    /\ err' = UnmarshalJSON(o, meta).err

Next == \E o \in Inputs : Decode(o)

Spec == Init /\ [][Next]_vars

(* Encoding any FileMeta and decoding the result into a fresh zero value   *)
(* gives the same FileMeta back, without error.                            *)
RoundTrip ==
    UnmarshalJSON(MarshalJSON(meta), ZeroMeta) = [meta |-> meta, err |-> FALSE]


=============================================================================
