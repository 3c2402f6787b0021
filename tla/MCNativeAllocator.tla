-------------------------- MODULE MCNativeAllocator --------------------------
(* A small arena for TLC. *)
EXTENDS NativeAllocator
=============================================================================
