-------------------------------- MODULE CString --------------------------------
(***************************************************************************)
(* The routines of lib/string.c that the console and the monitor call,     *)
(* each as the loop the code has, on a memory m: a function from           *)
(* addresses to bytes.  A string is the address of its first byte.  Its    *)
(* loop reads on until it meets a NUL, past DOMAIN m if there is none,     *)
(* which TLC reports as an error.                                          *)
(***************************************************************************)
EXTENDS Integers, Sequences

NUL  == "NUL"  \* the byte '\0'
NULL == -1     \* the null pointer

\* A string constant of the program, at address 1 of a memory of its own.
Literal(str) == [k \in 1 .. Len(str) + 1 |-> IF k <= Len(str) THEN str[k] ELSE NUL]

strlen(m, str) ==
    LET n[s \in DOMAIN m] == IF m[s] = NUL THEN 0 ELSE 1 + n[s + 1]
    IN  n[str]

\* Bytes have no order here: any difference is 1.
strcmp(m, p, n, q) ==
    LET diff[k \in Nat] ==
            IF m[p + k] # NUL /\ m[p + k] = n[q + k] THEN diff[k + 1]
            ELSE IF m[p + k] = n[q + k] THEN 0 ELSE 1
    IN  diff[0]

strchr(m, str, c) ==
    LET at[s \in DOMAIN m] ==
            IF m[s] = NUL THEN NULL ELSE IF m[s] = c THEN s ELSE at[s + 1]
    IN  at[str]

\* Element by element: from the last down when the end of the source would
\* be overwritten on the way, from the first up otherwise.
memmove(m, dst, src, n) ==
    LET down == src < dst /\ src + n > dst
        copied[k \in 0 .. n] ==
            IF k = 0 THEN m
            ELSE LET was == copied[k - 1]
                     j   == IF down THEN n - k ELSE k - 1
                 IN  [was EXCEPT ![dst + j] = was[src + j]]
    IN  copied[n]
================================================================================
