----------------------------- MODULE MCDieWalk ------------------------------
(* Instances of DieWalk for TLC: the kinds of DIE of three kinds of source. *)
EXTENDS DieWalk

ClassTags == {"compile_unit", "namespace", "structure_type", "member", "subprogram",
              "formal_parameter", "pack"}

FunctionTags == {"compile_unit", "subprogram", "formal_parameter", "lexical_block",
                 "variable", "structure_type", "pack", "other"}

DataTags == {"compile_unit", "structure_type", "member", "inheritance",
             "variant_part", "variant", "enumeration_type", "enumerator",
             "array_type", "subrange_type", "subroutine_type", "type"}

Classes   == [tags |-> ClassTags, options |-> {"f", "n"}]
Functions == [tags |-> FunctionTags, options |-> {"f", "V", "L"}]
Data      == [tags |-> DataTags, options |-> {"n"}]

TypeSources == {Classes, Data}
FunctionSources == {Functions}
=============================================================================
