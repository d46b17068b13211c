------------------------------ MODULE Bindings ------------------------------
(***************************************************************************)
(* The types that rexe/src/bindings.rs declares for the C library and for  *)
(* liburing, each with the size, alignment and field offsets that the file *)
(* asserts of it (its `const _` blocks: the values clang found in the C    *)
(* headers when bindgen ran).  The checked-in file compiles only where the *)
(* layout that rustc gives the declaration has these values; Layout        *)
(* compares the two.  Functions, constants and Default impls are left out, *)
(* and so are statx, epoll_event and futex_waitv, which are opaque.        *)
(***************************************************************************)
EXTENDS Integers, Sequences

\* A field with no offset assertion (bindgen makes none for anonymous ones).
Anywhere == -1

\* Primitive types: their alignment is their size on this target.
Scalar(bytes) == [size |-> bytes, align |-> bytes]
u8 == Scalar(1)
u16 == Scalar(2)
u32 == Scalar(4)
u64 == Scalar(8)
ptr == Scalar(8)
Array(t, n) == [size |-> n * t.size, align |-> t.align]

\* A field of type t asserted at an offset; `view` is what is read through it.
F(t, at) == [size |-> t.size, align |-> t.align, at |-> at,
             view |-> 0, viewAlign |-> 1]

\* __BindgenUnionField<T> (bindings.rs:34-47): of no size itself, and as_ref
\* reads a T at its address.
V(t, at) == [size |-> 0, align |-> 1, at |-> at,
             view |-> t.size, viewAlign |-> t.align]

\* A declaration and the size and alignment asserted of it.
Declared(size, align, fields, union, packed) ==
  [size |-> size, align |-> align, fields |-> fields,
   union |-> union, packed |-> packed]
Struct(size, align, fields) == Declared(size, align, fields, FALSE, FALSE)
Union(size, align, fields) == Declared(size, align, fields, TRUE, FALSE)
PackedUnion(size, align, fields) == Declared(size, align, fields, TRUE, TRUE)

-----------------------------------------------------------------------------
iovec == Struct(16, 8, <<F(ptr, 0), F(u64, 8)>>)
__sigset_t == Struct(128, 8, <<F(Array(u64, 16), 0)>>)
sockaddr == Struct(16, 2, <<F(u16, 0), F(Array(u8, 14), 2)>>)
\* A faulty msghdr with the narrow lengths of POSIX for Linux's size_t.
MsghdrOfPosix ==
  Struct(56, 8, <<F(ptr, 0), F(u32, 8), F(ptr, 16), F(u32, 24), F(ptr, 32),
      F(u32, 40), F(u32, 48)>>)

msghdr ==
  Struct(56, 8, <<F(ptr, 0), F(u32, 8), F(ptr, 16), F(u64, 24), F(ptr, 32),
      F(u64, 40), F(u32, 48)>>)
cmsghdr ==
  Struct(16, 8, <<F(u64, 0), F(u32, 8), F(u32, 12), F(Array(u8, 0), 16)>>)
sigval == Union(8, 8, <<F(u32, 0), F(ptr, 0)>>)
siginfo_t__bindgen_ty_1__bindgen_ty_1 ==
  Struct(8, 4, <<F(u32, 0), F(u32, 4)>>)
siginfo_t__bindgen_ty_1__bindgen_ty_2 ==
  Struct(16, 8, <<F(u32, 0), F(u32, 4), F(sigval, 8)>>)
siginfo_t__bindgen_ty_1__bindgen_ty_3 ==
  Struct(16, 8, <<F(u32, 0), F(u32, 4), F(sigval, 8)>>)
siginfo_t__bindgen_ty_1__bindgen_ty_4 ==
  Struct(32, 8, <<F(u32, 0), F(u32, 4), F(u32, 8), F(u64, 16), F(u64, 24)>>)
siginfo_t__bindgen_ty_1__bindgen_ty_5__bindgen_ty_1__bindgen_ty_1 ==
  Struct(16, 8, <<F(ptr, 0), F(ptr, 8)>>)
siginfo_t__bindgen_ty_1__bindgen_ty_5__bindgen_ty_1 ==
  Union(16, 8,
    <<F(siginfo_t__bindgen_ty_1__bindgen_ty_5__bindgen_ty_1__bindgen_ty_1, 0),
      F(u32, 0)>>)
siginfo_t__bindgen_ty_1__bindgen_ty_5 ==
  Struct(32, 8, <<F(ptr, 0), F(u16, 8),
      F(siginfo_t__bindgen_ty_1__bindgen_ty_5__bindgen_ty_1, 16)>>)
siginfo_t__bindgen_ty_1__bindgen_ty_6 ==
  Struct(16, 8, <<F(u64, 0), F(u32, 8)>>)
siginfo_t__bindgen_ty_1__bindgen_ty_7 ==
  Struct(16, 8, <<F(ptr, 0), F(u32, 8), F(u32, 12)>>)
siginfo_t__bindgen_ty_1 ==
  Union(112, 8, <<F(Array(u32, 28), 0),
      F(siginfo_t__bindgen_ty_1__bindgen_ty_1, 0),
      F(siginfo_t__bindgen_ty_1__bindgen_ty_2, 0),
      F(siginfo_t__bindgen_ty_1__bindgen_ty_3, 0),
      F(siginfo_t__bindgen_ty_1__bindgen_ty_4, 0),
      F(siginfo_t__bindgen_ty_1__bindgen_ty_5, 0),
      F(siginfo_t__bindgen_ty_1__bindgen_ty_6, 0),
      F(siginfo_t__bindgen_ty_1__bindgen_ty_7, 0)>>)
siginfo_t ==
  Struct(128, 8, <<F(u32, 0), F(u32, 4), F(u32, 8), F(u32, 12),
      F(siginfo_t__bindgen_ty_1, 16)>>)
__kernel_timespec == Struct(16, 8, <<F(u64, 0), F(u64, 8)>>)
open_how == Struct(24, 8, <<F(u64, 0), F(u64, 8), F(u64, 16)>>)
io_uring_sqe__bindgen_ty_1__bindgen_ty_1 ==
  Struct(8, 4, <<F(u32, 0), F(u32, 4)>>)
io_uring_sqe__bindgen_ty_1 ==
  Union(8, 8, <<F(u64, 0), F(u64, 0),
      F(io_uring_sqe__bindgen_ty_1__bindgen_ty_1, Anywhere)>>)
io_uring_sqe__bindgen_ty_2__bindgen_ty_1 ==
  Struct(8, 4, <<F(u32, 0), F(u32, 4)>>)
io_uring_sqe__bindgen_ty_2 ==
  Union(8, 8, <<F(u64, 0), F(u64, 0),
      F(io_uring_sqe__bindgen_ty_2__bindgen_ty_1, Anywhere)>>)
io_uring_sqe__bindgen_ty_3 ==
  Union(4, 4, <<F(u32, 0), F(u32, 0), F(u16, 0),
      F(u32, 0)>> \o [i \in 1..19 |-> F(u32, 0)])
io_uring_sqe__bindgen_ty_4 == PackedUnion(2, 1, <<F(u16, 0), F(u16, 0)>>)
io_uring_sqe__bindgen_ty_5__bindgen_ty_1 ==
  Struct(4, 2, <<F(u16, 0), F(Array(u16, 1), 2)>>)
io_uring_sqe__bindgen_ty_5 ==
  Union(4, 4, <<F(u32, 0), F(u32, 0), F(u32, 0),
      F(io_uring_sqe__bindgen_ty_5__bindgen_ty_1, Anywhere)>>)
io_uring_sqe__bindgen_ty_6__bindgen_ty_1 ==
  Struct(16, 8, <<F(u64, 0), F(Array(u64, 1), 8)>>)
io_uring_sqe__bindgen_ty_6 ==
  Struct(16, 8, <<V(io_uring_sqe__bindgen_ty_6__bindgen_ty_1, Anywhere),
      V(u64, 0), V(Array(u8, 0), 0), F(Array(u64, 2), Anywhere)>>)
io_uring_sqe ==
  Struct(64, 8, <<F(u8, 0), F(u8, 1), F(u16, 2), F(u32, 4),
      F(io_uring_sqe__bindgen_ty_1, Anywhere),
      F(io_uring_sqe__bindgen_ty_2, Anywhere), F(u32, 24),
      F(io_uring_sqe__bindgen_ty_3, Anywhere), F(u64, 32),
      F(io_uring_sqe__bindgen_ty_4, Anywhere), F(u16, 42),
      F(io_uring_sqe__bindgen_ty_5, Anywhere),
      F(io_uring_sqe__bindgen_ty_6, Anywhere)>>)
io_uring_cqe ==
  Struct(16, 8, <<F(u64, 0), F(u32, 8), F(u32, 12), F(Array(u64, 0), 16)>>)
io_sqring_offsets ==
  Struct(40, 8, <<F(u32, 0), F(u32, 4), F(u32, 8), F(u32, 12), F(u32, 16),
      F(u32, 20), F(u32, 24), F(u32, 28), F(u64, 32)>>)
io_cqring_offsets ==
  Struct(40, 8, <<F(u32, 0), F(u32, 4), F(u32, 8), F(u32, 12), F(u32, 16),
      F(u32, 20), F(u32, 24), F(u32, 28), F(u64, 32)>>)
io_uring_params ==
  Struct(120, 8, <<F(u32, 0), F(u32, 4), F(u32, 8), F(u32, 12), F(u32, 16),
      F(u32, 20), F(u32, 24), F(Array(u32, 3), 28), F(io_sqring_offsets, 40),
      F(io_cqring_offsets, 80)>>)
io_uring_files_update == Struct(16, 8, <<F(u32, 0), F(u32, 4), F(u64, 8)>>)
io_uring_region_desc ==
  Struct(64, 8, <<F(u64, 0), F(u64, 8), F(u32, 16), F(u32, 20), F(u64, 24),
      F(Array(u64, 4), 32)>>)
io_uring_mem_region_reg ==
  Struct(32, 8, <<F(u64, 0), F(u64, 8), F(Array(u64, 2), 16)>>)
io_uring_rsrc_register ==
  Struct(32, 8, <<F(u32, 0), F(u32, 4), F(u64, 8), F(u64, 16), F(u64, 24)>>)
io_uring_rsrc_update == Struct(16, 8, <<F(u32, 0), F(u32, 4), F(u64, 8)>>)
io_uring_rsrc_update2 ==
  Struct(32, 8, <<F(u32, 0), F(u32, 4), F(u64, 8), F(u64, 16), F(u32, 24),
      F(u32, 28)>>)
io_uring_probe_op ==
  Struct(8, 4, <<F(u8, 0), F(u8, 1), F(u16, 2), F(u32, 4)>>)
io_uring_probe ==
  Struct(16, 4, <<F(u8, 0), F(u8, 1), F(u16, 2), F(Array(u32, 3), 4),
      F(Array(io_uring_probe_op, 0), 16)>>)
io_uring_restriction__bindgen_ty_1 ==
  Union(1, 1, <<F(u8, 0), F(u8, 0), F(u8, 0)>>)
io_uring_restriction ==
  Struct(16, 4, <<F(u16, 0),
      F(io_uring_restriction__bindgen_ty_1, Anywhere), F(u8, 3),
      F(Array(u32, 3), 4)>>)
io_uring_clock_register == Struct(16, 4, <<F(u32, 0), F(Array(u32, 3), 4)>>)
io_uring_clone_buffers ==
  Struct(32, 4, <<F(u32, 0), F(u32, 4), F(u32, 8), F(u32, 12), F(u32, 16),
      F(Array(u32, 3), 20)>>)
io_uring_buf ==
  Struct(16, 8, <<F(u64, 0), F(u32, 8), F(u16, 12), F(u16, 14)>>)
io_uring_buf_ring__bindgen_ty_1__bindgen_ty_1 ==
  Struct(16, 8, <<F(u64, 0), F(u32, 8), F(u16, 12), F(u16, 14)>>)
\* A faulty ring whose storage has one word for the two of its views.
RingOfOneWord ==
  Struct(8, 8, <<V(io_uring_buf_ring__bindgen_ty_1__bindgen_ty_1, Anywhere),
      V(Array(io_uring_buf, 0), 0), F(Array(u64, 1), Anywhere)>>)

io_uring_buf_ring__bindgen_ty_1 ==
  Struct(16, 8, <<V(io_uring_buf_ring__bindgen_ty_1__bindgen_ty_1, Anywhere),
      V(Array(io_uring_buf, 0), 0), F(Array(u64, 2), Anywhere)>>)
io_uring_buf_ring ==
  Struct(16, 8, <<F(io_uring_buf_ring__bindgen_ty_1, Anywhere)>>)
io_uring_buf_reg ==
  Struct(40, 8, <<F(u64, 0), F(u32, 8), F(u16, 12), F(u16, 14),
      F(Array(u64, 3), 16)>>)
io_uring_buf_status ==
  Struct(40, 4, <<F(u32, 0), F(u32, 4), F(Array(u32, 8), 8)>>)
io_uring_napi ==
  Struct(16, 8, <<F(u32, 0), F(u8, 4), F(Array(u8, 3), 5), F(u64, 8)>>)
io_uring_cqwait_reg_arg ==
  Struct(48, 8, <<F(u32, 0), F(u32, 4), F(u32, 8), F(u32, 12), F(u64, 16),
      F(Array(u64, 3), 24)>>)
io_uring_reg_wait ==
  Struct(64, 8, <<F(__kernel_timespec, 0), F(u32, 16), F(u32, 20),
      F(u64, 24), F(u32, 32), F(Array(u32, 3), 36), F(Array(u64, 2), 48)>>)
io_uring_getevents_arg ==
  Struct(24, 8, <<F(u64, 0), F(u32, 8), F(u32, 12), F(u64, 16)>>)
io_uring_sync_cancel_reg ==
  Struct(64, 8, <<F(u64, 0), F(u32, 8), F(u32, 12),
      F(__kernel_timespec, 16), F(u8, 32), F(Array(u8, 7), 33),
      F(Array(u64, 3), 40)>>)
io_uring_file_index_range ==
  Struct(16, 8, <<F(u32, 0), F(u32, 4), F(u64, 8)>>)
io_uring_recvmsg_out ==
  Struct(16, 4, <<F(u32, 0), F(u32, 4), F(u32, 8), F(u32, 12)>>)
io_uring_sq ==
  Struct(104, 8, <<F(ptr, 0), F(ptr, 8), F(ptr, 16), F(ptr, 24), F(ptr, 32),
      F(ptr, 40), F(ptr, 48), F(ptr, 56), F(u32, 64), F(u32, 68), F(u64, 72),
      F(ptr, 80), F(u32, 88), F(u32, 92), F(Array(u32, 2), 96)>>)
io_uring_cq ==
  Struct(88, 8, <<F(ptr, 0), F(ptr, 8), F(ptr, 16), F(ptr, 24), F(ptr, 32),
      F(ptr, 40), F(ptr, 48), F(u64, 56), F(ptr, 64), F(u32, 72), F(u32, 76),
      F(Array(u32, 2), 80)>>)
io_uring ==
  Struct(216, 8, <<F(io_uring_sq, 0), F(io_uring_cq, 104), F(u32, 192),
      F(u32, 196), F(u32, 200), F(u32, 204), F(u8, 208), F(Array(u8, 3), 209),
      F(u32, 212)>>)
bufring_init_params_t == Struct(6, 2, <<F(u16, 0), F(u16, 2), F(u16, 4)>>)
bufring_t ==
  Struct(24, 8, <<F(ptr, 0), F(ptr, 8), F(bufring_init_params_t, 16)>>)
bufpool_t == Struct(32, 8, <<F(ptr, 0), F(ptr, 8), F(ptr, 16), F(ptr, 24)>>)
bufpool_freebuf_t == Struct(24, 8, <<F(u16, 0), F(ptr, 8), F(ptr, 16)>>)
appctx_t == Struct(256, 8, <<F(io_uring, 0), F(bufpool_t, 216), F(ptr, 248)>>)
userdata__bindgen_ty_1__bindgen_ty_1 == Struct(8, 4, <<F(u32, 0), F(u8, 4)>>)
userdata__bindgen_ty_1 ==
  Union(8, 8, <<F(userdata__bindgen_ty_1__bindgen_ty_1, Anywhere),
      F(u64, 0)>>)
userdata == Struct(8, 8, <<F(userdata__bindgen_ty_1, Anywhere)>>)

\* Every type declared with its layout.
DeclaredTypes == {
  iovec, __sigset_t, sockaddr, msghdr, cmsghdr, sigval,
  siginfo_t__bindgen_ty_1__bindgen_ty_1,
  siginfo_t__bindgen_ty_1__bindgen_ty_2,
  siginfo_t__bindgen_ty_1__bindgen_ty_3,
  siginfo_t__bindgen_ty_1__bindgen_ty_4,
  siginfo_t__bindgen_ty_1__bindgen_ty_5__bindgen_ty_1__bindgen_ty_1,
  siginfo_t__bindgen_ty_1__bindgen_ty_5__bindgen_ty_1,
  siginfo_t__bindgen_ty_1__bindgen_ty_5,
  siginfo_t__bindgen_ty_1__bindgen_ty_6,
  siginfo_t__bindgen_ty_1__bindgen_ty_7, siginfo_t__bindgen_ty_1, siginfo_t,
  __kernel_timespec, open_how, io_uring_sqe__bindgen_ty_1__bindgen_ty_1,
  io_uring_sqe__bindgen_ty_1, io_uring_sqe__bindgen_ty_2__bindgen_ty_1,
  io_uring_sqe__bindgen_ty_2, io_uring_sqe__bindgen_ty_3,
  io_uring_sqe__bindgen_ty_4, io_uring_sqe__bindgen_ty_5__bindgen_ty_1,
  io_uring_sqe__bindgen_ty_5, io_uring_sqe__bindgen_ty_6__bindgen_ty_1,
  io_uring_sqe__bindgen_ty_6, io_uring_sqe, io_uring_cqe, io_sqring_offsets,
  io_cqring_offsets, io_uring_params, io_uring_files_update,
  io_uring_region_desc, io_uring_mem_region_reg, io_uring_rsrc_register,
  io_uring_rsrc_update, io_uring_rsrc_update2, io_uring_probe_op,
  io_uring_probe, io_uring_restriction__bindgen_ty_1, io_uring_restriction,
  io_uring_clock_register, io_uring_clone_buffers, io_uring_buf,
  io_uring_buf_ring__bindgen_ty_1__bindgen_ty_1,
  io_uring_buf_ring__bindgen_ty_1, io_uring_buf_ring, io_uring_buf_reg,
  io_uring_buf_status, io_uring_napi, io_uring_cqwait_reg_arg,
  io_uring_reg_wait, io_uring_getevents_arg, io_uring_sync_cancel_reg,
  io_uring_file_index_range, io_uring_recvmsg_out, io_uring_sq, io_uring_cq,
  io_uring, bufring_init_params_t, bufring_t, bufpool_t, bufpool_freebuf_t,
  appctx_t, userdata__bindgen_ty_1__bindgen_ty_1, userdata__bindgen_ty_1,
  userdata }
=============================================================================
