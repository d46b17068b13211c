------------------------------ MODULE UserData ------------------------------
(***************************************************************************)
(* The 64 bits of user data that tie a completion to its request           *)
(* (clib/userdata.c, userdata.h): encode_userdata puts a descriptor or a   *)
(* buffer id and an opcode into a union with a 64 bit value, the kernel    *)
(* copies the value, userdata_decode looks at it through the union again.  *)
(* Where the parts lie is what Bindings has clang say.                     *)
(***************************************************************************)
EXTENDS Bindings

ValBytes == 0..7

FdField == userdata__bindgen_ty_1__bindgen_ty_1.fields[1]
OpField == userdata__bindgen_ty_1__bindgen_ty_1.fields[2]

UdFdMod == 65536

\* A faulty parameter `uint8_t fd`.
NarrowedToByte(n) == n % 256

\* The parameter `uint16_t fd` of encode_userdata.
Narrowed(n) == n % UdFdMod

\* A faulty union in which the opcode overlaps the descriptor.
PackedOverlapping(n, code, pad) ==
  [i \in ValBytes |-> CASE i = 0 -> n % 256
                        [] i \in {1, OpField.at} -> code
                        [] i \in 2..3 -> 0
                        [] OTHER -> pad[i]]

\* { .fd = fd, .op = op } in memory, low byte first; nothing sets the padding.
Packed(n, code, pad) ==
  [i \in ValBytes |->
     CASE i = FdField.at     -> n % 256
       [] i = FdField.at + 1 -> (n \div 256) % 256
       [] i \in (FdField.at + 2)..(FdField.at + 3) -> 0
       [] i = OpField.at     -> code
       [] OTHER              -> pad[i]]

Encode(n, code, pad) == Packed(Narrowed(n), code, pad)

\* The members fd (uint32_t) and op (uint8_t) of the union.
Decode(v) ==
  [fd |-> v[FdField.at] + 256 * v[FdField.at + 1] + 65536 * v[FdField.at + 2]
            + 16777216 * v[FdField.at + 3],
   op |-> v[OpField.at]]
=============================================================================
