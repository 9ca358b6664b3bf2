------------------------------ MODULE MCToast ------------------------------
(* Two toasts, of which the screen may hold one or both.                   *)
EXTENDS ToastQueue
=============================================================================
