------------------------------- MODULE LoadAndDump -------------------------------
(***************************************************************************)
(* What load_json, dump_json, load and dump promise together: the ways into *)
(* a type agree, the ways out agree, and what was written is read again.    *)
(*                                                                         *)
(* A request either reads a document as a type, or writes a value of a type *)
(* and reads that.                                                          *)
(***************************************************************************)
EXTENDS JsonDecoder, Validate, Encoder

CONSTANTS
    ReadRequests,   \* of records [type, doc]
    WriteRequests   \* of records [type, value, sort_keys]

RECURSIVE Parse(_, _), ParseItems(_, _, _), ParsePairs(_, _, _), AsEqual(_), AsJson(_), InOrder(_)

(***************************************************************************)
(* json.loads: the value of a document, Failed if it is malformed.  p is    *)
(* the value read so far and the place of the next token.                   *)
(***************************************************************************)
Parsed(v, next) == [v |-> v, next |-> next]
Malformed == Parsed(Failed, 0)

ParseItems(d, i, items) ==
    LET p == Parse(d, i) IN
    CASE p.v = Failed -> Malformed
      [] d[p.next] = <<",">> -> ParseItems(d, p.next + 1, Append(items, p.v))
      [] d[p.next] = <<"]">> -> Parsed(<<"list", Append(items, p.v)>>, p.next + 1)
      [] OTHER -> Malformed

ParsePairs(d, i, pairs) ==
    LET p == IF IsString(d[i]) /\ d[i + 1] = <<":">> THEN Parse(d, i + 2) ELSE Malformed
        now == Put(pairs, Str(d[i][2]), p.v)
    IN CASE p.v = Failed -> Malformed
         [] d[p.next] = <<",">> -> ParsePairs(d, p.next + 1, now)
         [] d[p.next] = <<"}">> -> Parsed(<<"dict", now>>, p.next + 1)
         [] OTHER -> Malformed

Parse(d, i) ==
    CASE d[i][1] \in {"none", "bool", "int"} -> Parsed(d[i], i + 1)
      [] IsString(d[i]) -> Parsed(Str(d[i][2]), i + 1)
      [] d[i] = <<"[">> /\ d[i + 1] = <<"]">> -> Parsed(<<"list", <<>>>>, i + 2)
      [] d[i] = <<"{">> /\ d[i + 1] = <<"}">> -> Parsed(<<"dict", <<>>>>, i + 2)
      [] d[i] = <<"[">> /\ d[i + 1] # <<"]">> -> ParseItems(d, i + 1, <<>>)
      [] d[i] = <<"{">> /\ d[i + 1] # <<"}">> -> ParsePairs(d, i + 1, <<>>)
      [] OTHER -> Malformed

JsonLoads(d) ==
    LET p == Parse(d, 1) IN IF p.v # Failed /\ d[p.next] = <<"eof">> THEN p.v ELSE Failed

(* A key twice in the same object.                                          *)
Depth(d, i) ==
    Cardinality({j \in 1..i : d[j][1] \in {"[", "{"}}) - Cardinality({j \in 1..i : d[j][1] \in {"]", "}"}})

RepeatsAKey(d) ==
    \E i, j \in 1..Len(d) - 1 :
        /\ i < j /\ IsString(d[i]) /\ IsString(d[j]) /\ d[i][2] = d[j][2]
        /\ d[i + 1] = <<":">> /\ d[j + 1] = <<":">>
        /\ \A k \in i..j : Depth(d, k) >= Depth(d, i)

--------------------------------------------------------------------------------
Encoded(r) == Encode(EncoderState(r.sort_keys), r.value)

Document(out) == Append(out, <<"eof">>)

(* Requests of both kinds have the same fields; nothing is written for Null. *)
Request(type, d, value, sort_keys) ==
    [type |-> type, doc |-> d, value |-> value, sort_keys |-> sort_keys]

Init ==
    /\ \/ \E r \in ReadRequests : request = Request(r.type, r.doc, Null, FALSE)
       \/ \E r \in WriteRequests :
            LET encoded == Encoded(r)
            IN request = Request(r.type, Document(IF encoded.ok THEN encoded.out ELSE <<>>), r.value, r.sort_keys)
    /\ Begin

Next == Step

(* A decoder runs on one thread, which goes on.                             *)
Spec == Init /\ [][Next]_vars /\ WF_vars(Next)

--------------------------------------------------------------------------------
(***************************************************************************)
(* Properties                                                              *)
(***************************************************************************)
Written == request.value # Null
Starting == pos = 1 /\ Len(stack) = 1 /\ stack[1] = Call(request.type)

(* Dicts are equal whatever their order.                                    *)
AsEqual(v) ==
    CASE v[1] = "dict" -> <<"dict", {<<AsEqual(v[2][i][1]), AsEqual(v[2][i][2])>> : i \in DOMAIN v[2]}>>
      [] v[1] \in {"list", "tuple"} -> <<v[1], [i \in DOMAIN v[2] |-> AsEqual(v[2][i])]>>
      [] v[1] = "obj" -> <<"obj", v[2], [i \in DOMAIN v[3] |-> AsEqual(v[3][i])]>>
      [] OTHER -> v

Same(v, w) == AsEqual(v) = AsEqual(w)

(* Whatever a document holds, and wherever it is damaged: json_decode       *)
(* accepts it if and only if json.loads and then validate_obj do, and the   *)
(* values are the same.  This is so although the decoder reads members as   *)
(* they come, looks for tags ahead and skips what it does not know; if a    *)
(* key is repeated it may refuse what json.loads would drop.                *)
LoadsAlike ==
    LET loaded == JsonLoads(doc)
        v == IF loaded = Failed THEN Failed ELSE ValidateObj(loaded, request.type, TRUE)
    IN /\ status = "ok" => Same(ret, v)
       /\ status = "err" => v = Failed \/ RepeatsAKey(doc)

(* A decoder comes to an end, also when a union goes back to where its      *)
(* members start.                                                           *)
Terminates == <>(status # "run")

(* What a document cannot say: tuples are arrays.                           *)
AsJson(v) ==
    CASE v[1] \in {"list", "tuple"} -> <<"list", [i \in DOMAIN v[2] |-> AsJson(v[2][i])]>>
      [] v[1] = "dict" -> <<"dict", [i \in DOMAIN v[2] |-> <<v[2][i][1], AsJson(v[2][i][2])>>]>>
      [] OTHER -> v

Dumped(r, str_keys) == Dump([str_keys |-> str_keys, sort_keys |-> r.sort_keys], r.value, Null, FALSE)

(* The classes that give a field a `dump' for a Struct.                     *)
StructCodecs ==
    {c \in DOMAIN Class : HasCodecs(c) /\ \E i \in DOMAIN Class[c].codecs :
        /\ Class[c].codecs[i] # Null
        /\ \E t \in DOMAIN Class[c].codecs[i] : t \in DOMAIN Class /\ Class[t].kind = "struct"}

(* json_encode writes what dump_obj returns, whatever codecs the fields of  *)
(* nested Structs have, how these follow each other and what the callbacks  *)
(* return; it fails only where dump_obj does, or if it has to sort keys     *)
(* that are not texts.  This is not said of codecs for Structs, which       *)
(* json_encode_inline writes before it comes to codecs.                     *)
DumpsAlike ==
    StructCodecs = {} /\ Written /\ Starting =>
        LET dumped == Dumped(request, TRUE) IN
        IF Encoded(request).ok THEN dumped # Failed /\ JsonLoads(doc) = AsJson(dumped)
        ELSE dumped = Failed \/ request.sort_keys

(* What was written of a type is read as the same value: by json_decode     *)
(* from the document, and by validate_obj from what dump_obj made.          *)
RoundTrips ==
    Written /\ request.type # TypeAny =>
        /\ status # "run" /\ Encoded(request).ok => status = "ok" /\ Same(ret, request.value)
        /\ Starting => \A str_keys \in BOOLEAN :
             LET dumped == Dumped(request, str_keys)
             IN dumped # Failed => Same(ValidateObj(dumped, request.type, str_keys), request.value)

(* The value with every dict in the order of its keys, sets as lists.       *)
InOrder(v) ==
    CASE v[1] = "dict" ->
            <<"dict", SortSeq([i \in DOMAIN v[2] |-> <<v[2][i][1], InOrder(v[2][i][2])>>], KeyLess)>>
      [] v[1] \in {"list", "tuple"} -> <<v[1], [i \in DOMAIN v[2] |-> InOrder(v[2][i])]>>
      [] v[1] = "obj" -> <<"obj", v[2], [i \in DOMAIN v[3] |-> InOrder(v[3][i])]>>
      [] v[1] = "set" -> <<"list", SortSeq(SetToSeq(v[2]), ValueLess)>>
      [] OTHER -> v

(* With sort_keys the document depends on what a value holds and not on the *)
(* order in which it came to hold it: AssocList_Sort gives the one order of *)
(* the keys, for every order of insertion.                                  *)
SortedIsCanonical ==
    Written /\ Starting /\ request.sort_keys /\ Encoded(request).ok =>
        doc = Document(Encode(EncoderState(FALSE), InOrder(request.value)).out)

================================================================================
