------------------------------ MODULE Routines ------------------------------
(***************************************************************************)
(* The sequential routines: drawing and text (Font, with Draw), printf's   *)
(* conversions (Strings), memcpy() and memcmp() (Memory), and the sector   *)
(* transfers the kernel makes with IRQs masked (Sd). One is at work at a   *)
(* time, on data no other task has. An interrupt in the middle changes     *)
(* none of their variables (Context), so it is no step.                    *)
(***************************************************************************)
EXTENDS MCFont, Memory, Strings, Sd

rvars == <<dvars, fvars, mvars, pvars, svars>>

Running ==
    drawing \/ at # "none" \/ moving # "none" \/ printing \/ transfer # "none"

Init == DrawIdle /\ FontIdle /\ MemIdle /\ PrintIdle /\ SdIdle

(* The routine that was called goes on...                                  *)
Turn ==
    \/ FontTurn /\ UNCHANGED <<mvars, pvars, svars>>
    \/ (line_turn \/ line_break) /\ UNCHANGED <<fvars, mvars, pvars, svars>>
    \/ MemTurn /\ UNCHANGED <<dvars, fvars, pvars, svars>>
    \/ PrintTurn /\ UNCHANGED <<dvars, fvars, mvars, svars>>
    \/ SdTurn /\ UNCHANGED <<dvars, fvars, mvars, pvars>>

(* ... and when none is at work, one is called.                            *)
Calls ==
    /\ ~Running
    /\ \/ \E f \in Fonts : get_font(f) /\ UNCHANGED <<dvars, mvars, pvars, svars>>
       \/ \E s, e \in Points : draw_line(s, e) /\ UNCHANGED <<fvars, mvars, pvars, svars>>
       \/ MemBegin /\ UNCHANGED <<dvars, fvars, pvars, svars>>
       \/ \E c \in Prints : k_vprintf_internal(c[1], c[2])
                            /\ UNCHANGED <<dvars, fvars, mvars, svars>>
       \/ SdBegin /\ UNCHANGED <<dvars, fvars, mvars, pvars>>

Next == Calls \/ Turn

(* A routine keeps running, since its task does (NoStarvation of Task).    *)
Spec == Init /\ [][Next]_rvars /\ WF_rvars(Turn)

-----------------------------------------------------------------------------
(* Every routine returns: the line meets its end point exactly             *)
(* (draw.c:19), the word and byte loops meet their counts, the text and    *)
(* the format their ends, and a card that is never ready is given up       *)
(* (sd.c:106, 145, 164).                                                   *)
RoutinesReturn == Running ~> ~Running

MCContents == [0..5 -> {0, 1}]
MCPowers == <<100, 10, 1>>
MCPrints ==
    {<<<<"%", "d">>, <<v>>>> : v \in -128..127}
    \cup {<<<<"%", "x">>, <<v>>>> : v \in -128..127}
    \cup {<<<<"a", "%", "s", "%", "%", "%", "c">>, <<<<"t", "u">>, "c">>>>,
             <<INVALID, <<>>>>}
=============================================================================
