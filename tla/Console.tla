------------------------------ MODULE Console ------------------------------
(***************************************************************************)
(* console.cpp and panic.cpp: strings written to the UART one character at *)
(* a time under g_lock, by several cores.  What is modelled here is how a  *)
(* core prints; Boot.tla says what it prints.                              *)
(***************************************************************************)
EXTENDS Integers, Sequences

CONSTANTS
  Cores,
  FifoSize     \* characters the UART's transmit FIFO holds

VARIABLES
  g_lock,      \* console.cpp's spinlock
  calls,       \* the strings each core has yet to print(), the present one first
  in_print,    \* the cores that have locked g_lock in print()
  cr,          \* the cores that have written the '\r' of a "\r\n"
  uart,        \* every character written to the data register
  sent         \* how many of them the UART has transmitted

console == <<g_lock, calls, in_print, cr, uart, sent>>

ConsoleInit ==
  /\ g_lock = FALSE
  /\ calls = [c \in Cores |-> <<>>]
  /\ in_print = {} /\ cr = {}
  /\ uart = <<>> /\ sent = 0

(* A core's code goes on to a run of calls of print().                     *)
Printing(c, strings) ==
  /\ calls' = [calls EXCEPT ![c] = strings]
  /\ UNCHANGED <<g_lock, in_print, cr, uart, sent>>

(* append() and append_uint(): strings put together before they are        *)
(* printed; the digits come least significant first and are reversed.      *)
append(dst, str) == dst \o str

append_uint(dst, value) ==
  LET digit == <<"0", "1", "2", "3", "4", "5", "6", "7", "8", "9">>
      digits[v \in 0 .. value] == IF v < 10 THEN <<digit[v + 1]>>
                           ELSE Append(digits[v \div 10], digit[(v % 10) + 1])
  IN  append(dst, digits[value])

(* kpanic_at(): what it prints, call by call.                              *)
kpanic_at(msg, file, line) ==
  << <<"KPANIC: ">>, msg, <<" at ">>, file, <<":">>, append_uint(<<>>, line), <<"\n">> >>

-----------------------------------------------------------------------------
(* print()                                                                 *)

(* Faulty: prints without the lock.                                        *)
PrintNoLock(c) ==
  /\ calls[c] # <<>> /\ c \notin in_print
  /\ in_print' = in_print \cup {c}
  /\ UNCHANGED <<g_lock, calls, cr, uart, sent>>

PrintLock(c) ==
  /\ calls[c] # <<>> /\ c \notin in_print
  /\ ~g_lock /\ g_lock' = TRUE
  /\ in_print' = in_print \cup {c}
  /\ UNCHANGED <<calls, cr, uart, sent>>

TxFifoFull == Len(uart) - sent >= FifoSize

(* putc_raw(): waits while the FIFO is full.                               *)
putc_raw(char) == ~TxFifoFull /\ uart' = Append(uart, char)

PutCr(c) ==
  /\ c \in in_print \ cr
  /\ Head(calls[c]) # <<>> /\ Head(Head(calls[c])) = "\n"
  /\ putc_raw("\r")
  /\ cr' = cr \cup {c}
  /\ UNCHANGED <<g_lock, calls, in_print, sent>>

PutChar(c) ==
  /\ c \in in_print
  /\ Head(calls[c]) # <<>>
  /\ Head(Head(calls[c])) = "\n" => c \in cr
  /\ putc_raw(Head(Head(calls[c])))
  /\ calls' = [calls EXCEPT ![c][1] = Tail(@)]
  /\ cr' = cr \ {c}
  /\ UNCHANGED <<g_lock, in_print, sent>>

PrintUnlock(c) ==
  /\ c \in in_print /\ Head(calls[c]) = <<>>
  /\ g_lock' = FALSE
  /\ in_print' = in_print \ {c}
  /\ calls' = [calls EXCEPT ![c] = Tail(@)]
  /\ UNCHANGED <<cr, uart, sent>>

print(c) == PrintLock(c) \/ PutCr(c) \/ PutChar(c) \/ PrintUnlock(c)

(* The UART transmits what is in its FIFO.                                 *)
Transmit ==
  /\ sent < Len(uart)
  /\ sent' = sent + 1
  /\ UNCHANGED <<g_lock, calls, in_print, cr, uart>>

-----------------------------------------------------------------------------
(* What the console shows of a string: a new line begins at the left.      *)
Shown(str) ==
  LET shown[n \in 0 .. Len(str)] ==
        IF n = 0 THEN <<>>
        ELSE shown[n - 1] \o (IF str[n] = "\n" THEN <<"\r", "\n">> ELSE <<str[n]>>)
  IN  shown[Len(str)]

(* What the core that holds the lock has yet to write of its string.       *)
Rest(c) == LET r == Shown(Head(calls[c])) IN IF c \in cr THEN Tail(r) ELSE r

(* print() is atomic (console.hpp): a call takes effect when it locks      *)
(* g_lock, and from there on no other core's characters come in between.   *)
Abstract == INSTANCE ConsoleSpec WITH
  out   <- IF in_print = {} THEN uart ELSE uart \o Rest(CHOOSE c \in in_print : TRUE),
  calls <- [c \in Cores |-> IF c \in in_print THEN Tail(calls[c]) ELSE calls[c]]

(* The console implements an atomic print().                               *)
PrintIsAtomic == Abstract!Spec
=============================================================================
