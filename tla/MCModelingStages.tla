--------------------------- MODULE MCModelingStages ---------------------------
(* Small register maps that reach every rule of Validate and every branch of the
   merge, and the outputs of a verify command. *)
EXTENDS ModelingStages

Reg(name, offset, width, access, reset, fields) ==
    [name |-> name, offset |-> offset, width |-> width, access |-> access,
     reset |-> reset, fields |-> fields, effect |-> FALSE]

Low == [name |-> "f", bit |-> 0, width |-> 4]
Mid == [name |-> "g", bit |-> 2, width |-> 4]
Far == [name |-> "h", bit |-> 127, width |-> 1]

Map(device, registers, irqs, long) ==
    [device |-> device, mmio |-> 4, registers |-> registers, irqs |-> irqs,
     notes |-> FALSE, long |-> long]

Plain == {Reg(n, o, w, "rw", r, <<>>) :
             n \in {"a", "b"}, o \in {0, 1, 2}, w \in {1, 2}, r \in {Unknown, 0}}

Odd == {Reg("b", o, w, a, r, f) :
           o \in {1, 4}, w \in {1, 2}, a \in {"rw", "wo"}, r \in {Unknown, 256},
           f \in {<<>>, <<Far, Low>>, <<Mid, Low>>}}

MCExtractReplies ==
    {Garbage, Map("uart", <<>>, <<0>>, FALSE)}
    \union {Map("uart", <<Reg("a", 0, 1, "rw", 0, <<>>)>>, i, l) :
               i \in {<<>>, <<0>>, <<0, 0>>, <<2>>}, l \in BOOLEAN}
    \union {Map("uart", <<r, q>>, <<0>>, FALSE) : r \in Plain, q \in Plain \union Odd}
    \union {[Map("uart", <<Reg("a", o, 2, "rw", 0, <<>>), Reg("b", 254, 2, "rw", 0, <<>>)>>,
                 <<0>>, FALSE) EXCEPT !.mmio = 1] : o \in {0, 254}}

Inferred == {Reg("b", 1, 1, "rw", r, f) : r \in {Unknown, 1, 256}, f \in {<<>>, <<Low>>}}
            \union {Reg("b", 1, 1, "rw", 1, <<Mid, Low>>)}
            \union {Reg("a", o, 1, "rw", r, <<Low>>) : o \in {0, 2}, r \in {Unknown, 1}}

MCInferReplies ==
    {Garbage} \union {Map("spi", <<r, q>>, <<1>>, r = q) : r \in Inferred, q \in Inferred}
              \union {Map("spi", <<r, r>>, i, FALSE) : r \in Inferred, i \in {<<>>, <<1, 1>>}}

Ran(entered, printed, code, cut) ==
    [entered |-> entered, printed |-> printed, code |-> code, cut |-> cut]

MCOutputs ==
    {Ran(TRUE, <<>>, 0, FALSE), Ran(TRUE, <<>>, 1, FALSE),
     Ran(TRUE, <<0>>, 1, FALSE), Ran(TRUE, <<1>>, 0, FALSE)}
    \union {Ran(FALSE, <<>>, 66, FALSE), Ran(TRUE, <<>>, 0, TRUE), Ran(TRUE, <<0>>, 1, TRUE)}
==============================================================================
