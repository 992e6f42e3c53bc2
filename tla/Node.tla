-------------------------------- MODULE Node --------------------------------
(***************************************************************************)
(* The values that the program passes around: what a YAML text is when it  *)
(* is unmarshalled into an interface{}, Go structs as reflection sees      *)
(* them, what stands for an error, and the paths into all of these.        *)
(***************************************************************************)
EXTENDS Naturals, Sequences

Leaf(text)   == [leaf |-> text]      \* a string
Number(text) == [number |-> text]    \* any other scalar, with the text it prints as
Map(f)       == [map |-> f]
List(seq)    == [list |-> seq]
Opaque(t)    == [opaque |-> t]       \* a map[string]interface{} among maps of the YAML package
Null         == [null |-> TRUE]
Bad          == [error |-> TRUE]
Panic        == [panic |-> TRUE]

IsMap(t)  == DOMAIN t = {"map"}
IsList(t) == DOMAIN t = {"list"}
IsScalar(t) == "leaf" \in DOMAIN t \/ "number" \in DOMAIN t
Failed(t) == t \in {Bad, Panic}

EmptyMap == Map([k \in {} |-> Null])
Has(t, k) == k \in DOMAIN t.map
Put(t, k, v) == Map([j \in DOMAIN t.map \cup {k} |-> IF j = k THEN v ELSE t.map[j]])
Entry(t, k) == IF Has(t, k) THEN t.map[k] ELSE Null

\* What fmt.Sprint makes of a value, so far as two of them are compared.
Printed(t) == CASE "leaf" \in DOMAIN t -> t.leaf
                [] "number" \in DOMAIN t -> t.number
                [] OTHER -> "<>"
-----------------------------------------------------------------------------
(* Structs, and pointers to them, are Struct of their exported fields; nil  *)
(* pointers, maps, slices and interfaces are Null.                          *)

Struct(f) == [struct |-> f]
Slice(seq) == [slice |-> seq]
IsStruct(v) == "struct" \in DOMAIN v
IsSlice(v) == "slice" \in DOMAIN v

NotFound == [found |-> FALSE]
Found(v) == [found |-> TRUE, value |-> v]

True == Number("true")
False == Number("false")
BoolValue(b) == Struct([Value |-> b])

CommonPath(feature, component) == <<feature, "Components", component, "Common">>
-----------------------------------------------------------------------------
(* A path into a tree (pkg/util/path.go) is a sequence of elements: a key,  *)
(* or an element in brackets that selects an item of a list, [key:value] by *)
(* an entry of it and [value] by its own text.                              *)

Key(k) == [brackets |-> FALSE, parts |-> <<k>>]
Item(k, v) == [brackets |-> TRUE, parts |-> <<k, v>>]
Value(v) == [brackets |-> TRUE, parts |-> <<v>>]
EmptyKey == Key("")
Keys(names) == [i \in DOMAIN names |-> Key(names[i])]

\* PathFromString drops the empty elements of "a..b" and of "a.b.".
PathFromString(elements) ==
  LET r[i \in 0..Len(elements)] ==
        IF i = 0 THEN <<>>
        ELSE IF elements[i] = EmptyKey THEN r[i - 1] ELSE Append(r[i - 1], elements[i])
  IN  r[Len(elements)]
=============================================================================
