--------------------------- MODULE MCSerialization ---------------------------
(* Serialization for TLC.                                                  *)
EXTENDS Serialization

Property(name, since, shape, bytes, blank) ==
  [name |-> name, property |-> TRUE, since |-> since, shape |-> shape, size |-> bytes, blank |-> blank]

Plain(f) == [f EXCEPT !.property = FALSE]

SomeClasses == {"Data", "Base", "Middle", "Derived"}

(* Data has a number of version 2 and a list, as in the README.  Derived   *)
(* has two ancestors, hides the x of its base, and has a field that is no  *)
(* property; the enum of its base does not fit into a byte.                *)
SomeFields ==
  [c \in SomeClasses |->
    CASE c = "Data" -> << Property("value", 2, "fixed", 4, << 0 >>), Property("nums", 1, "list", 2, << >>) >>
      [] c = "Base" -> << Property("y", 1, "fixed", 1, << 0 >>) >>
      [] c = "Middle" -> << Property("kind", 1, "enum", 1, << 0 >>), Property("x", 1, "fixed", 4, << 0 >>) >>
      [] c = "Derived" -> << Property("x", 2, "stack", 4, << >>),
                             Plain(Property("y", 1, "fixed", 2, << 0 >>)) >>]

SomeBases ==
  [c \in SomeClasses |-> CASE c = "Middle" -> << "Base" >> [] c = "Derived" -> << "Middle" >> [] OTHER -> << >>]

Object(c, contents) ==
  [class |-> c, members |-> [m \in ToSet(Aggregate[c]) |-> contents[m[1]][m[2]]]]

SomeObjects ==
  { Object("Data", [Data |-> << << 5 >>, << 1, 2 >> >>]),
    Object("Middle", [Middle |-> << << 256 >>, << 8 >> >>, Base |-> << << 7 >> >>]),
    Object("Derived", [Derived |-> << << 3, 4 >>, << 6 >> >>, Middle |-> << << 1 >>, << 2 >> >>,
                       Base |-> << << 7 >> >>]) }
=============================================================================
