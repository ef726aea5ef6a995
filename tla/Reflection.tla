------------------------------ MODULE Reflection ------------------------------
(***************************************************************************)
(* TA_MetaReflex and the type lists it is built from: which members of a   *)
(* class the compiler finds under a name, and which ones a serializer gets *)
(* as the properties of an object.                                         *)
(*                                                                         *)
(* A class registers fields (DEFINE_TYPE_INFO, REGISTER_FIELD) and names   *)
(* its bases.  A member is a field together with the class that registers  *)
(* it, which stands for the pointer to member.                             *)
(***************************************************************************)
EXTENDS Integers, Sequences, FiniteSets, SequencesExt

CONSTANTS
  Classes,
  Fields,        \* class -> its TA_MetaFieldList, in order
  Bases          \* class -> the BASES of its TA_MetaTypeInfo, in order

ASSUME FieldsAssumption ==
  \A c \in Classes :
    /\ Fields[c] \in Seq(ToSet(Fields[c]))
    /\ \A k \in 1 .. Len(Fields[c]) : Fields[c][k].property \in BOOLEAN /\ Fields[c][k].since \in Nat
ASSUME BasesAssumption == Bases \in [Classes -> Seq(Classes)]

(* A base is complete where its class is defined: none is its own base.    *)
ASSUME OrderAssumption ==
  /\ IsFiniteSet(Classes)
  /\ \E rank \in [Classes -> 0 .. Cardinality(Classes)] :
       \A c \in Classes : \A b \in 1 .. Len(Bases[c]) : rank[Bases[c][b]] < rank[c]

-----------------------------------------------------------------------------
(* Type lists                                                              *)

(* What of a list is at some of its places.                                *)
At(list, places) ==
  FlattenSeq([k \in 1 .. Len(list) |-> IF k \in places THEN << list[k] >> ELSE << >>])

(* MetaRemoveDuplicate keeps the last of several.                          *)
RemoveDuplicate(list) ==
  At(list, {k \in 1 .. Len(list) : \A j \in k + 1 .. Len(list) : list[j] # list[k]})

(* MetaFilterMapper with the filter and the mapper of PropertyInfos: the   *)
(* properties of a list, each as its name and its version.                 *)
FilterMapper(list) ==
  LET some == At(list, {k \in 1 .. Len(list) : list[k].property})
  IN [k \in 1 .. Len(some) |-> [name |-> some[k].name, since |-> some[k].since]]

-----------------------------------------------------------------------------
(* Members                                                                 *)

Members(c) == {<< c, k >> : k \in 1 .. Len(Fields[c])}
Field(m) == Fields[m[1]][m[2]]

(* aggregate: the class's own fields, then those of each base.             *)
Aggregate[c \in Classes] ==
  [k \in 1 .. Len(Fields[c]) |-> << c, k >>]
    \o FlattenSeq([b \in 1 .. Len(Bases[c]) |-> Aggregate[Bases[c][b]]])

(* The first field of that name in the class's own list, or 0.             *)
OwnIndex(c, name) == SelectInSeq(Fields[c], LAMBDA f : f.name = name)

ContainsName(c, name) ==
  LET contains[d \in Classes] ==
        OwnIndex(d, name) # 0 \/ \E b \in 1 .. Len(Bases[d]) : contains[Bases[d][b]]
  IN contains[c]

(* findTypeFromBase's nullptr                                              *)
NoMember == << >>

(* findType and findTypeFromBase: in the class's own list, then in the     *)
(* first base that has the name, its bases included.                       *)
FindType(c, name) ==
  LET find[d \in Classes] ==
        LET base == SelectInSeq(Bases[d], LAMBDA b : ContainsName(b, name)) IN
        IF OwnIndex(d, name) # 0 THEN << d, OwnIndex(d, name) >>
        ELSE IF base # 0 THEN find[Bases[d][base]]
        ELSE NoMember
  IN find[c]

(* findName: the name of the first member that equals the value.           *)
FindName(c, m) ==
  Field(Aggregate[c][SelectInSeq(Aggregate[c], LAMBDA x : x = m)]).name

-----------------------------------------------------------------------------
(* Properties                                                              *)

(* PropertyInfos of one field list                                         *)
Own(c) == FilterMapper(Fields[c])

(* Mutant: the base's properties are left to the base. *)
PropertyInfos_OwnOnly == [c \in Classes |-> RemoveDuplicate(Own(c))]

(* TA_PropertyInfos: the class's own properties, then those its base       *)
(* registers itself, not what that inherits.  MetaAppend takes two lists:  *)
(* a class with two bases has no properties, it does not compile.          *)
PropertyInfos ==
  [c \in Classes |->
     RemoveDuplicate(IF Bases[c] = << >> THEN Own(c) ELSE Own(c) \o Own(Bases[c][1]))]
=============================================================================
