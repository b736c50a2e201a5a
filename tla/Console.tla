------------------------------- MODULE Console -------------------------------
(***************************************************************************)
(* kernel/chr_drv/console.c: the screen in the video memory, and the       *)
(* escape sequences.  con_write takes the characters one by one, and its   *)
(* state outlives the call, so a step is one character.  Addresses count   *)
(* cells of the video memory (the code counts bytes, two per cell).  The   *)
(* commands never look at what a cell holds: the characters written are    *)
(* spaces, told apart by their attribute, and one that is not blank at a   *)
(* time shows where the commands move it.                                  *)
(***************************************************************************)
EXTENDS Integers, FiniteSets

CONSTANTS video_num_columns, video_num_lines,
          VideoCells,      \* cells from video_mem_start to video_mem_end
          TabStops,        \* 8
          NPAR,            \* parameters of a command
          Code7, Code8,    \* the codes of the characters 7 and 8
          Digits, MaxPar,  \* bound: the digits used, the largest parameter
          MaxMarks         \* bound: cells of the video memory that are not blank

ASSUME ConsoleAssumption ==
    /\ video_num_columns \in Nat \ {0} /\ video_num_lines \in Nat \ {0, 1}
    /\ video_num_columns % 2 = 0 /\ TabStops \in Nat \ {0}
    /\ video_num_columns % TabStops = 0
    /\ VideoCells \in Nat /\ VideoCells >= video_num_columns * video_num_lines
    /\ NPAR \in Nat \ {0, 1} /\ MaxPar \in Nat /\ MaxMarks \in Nat
    /\ Digits \subseteq 0 .. 9 /\ {Code7, Code8} \subseteq Nat

VARIABLES
    con,    \* video, origin, scr_end, pos, x, y, top, bottom, ega (an EGA or VGA)
    state, npar, par, attr,
    saved   \* saved_x, saved_y

conVars == <<con, state, npar, par, attr, saved>>

VideoMem == 0 .. VideoCells - 1
Attributes == {"normal", "bright", "reverse"}
video_erase_char == "normal"  \* a space in the normal attribute
NoMemory == <<>>
ScreenSize == video_num_lines * video_num_columns

-----------------------------------------------------------------------------
\* rep stosw and rep movsl; a store outside the video memory leaves NoMemory.
Inside(start, n) == n = 0 \/ (start >= 0 /\ start + n <= VideoCells)
Erased(v, start, n) ==
    IF ~Inside(start, n) THEN NoMemory
    ELSE [i \in VideoMem |-> IF start <= i /\ i < start + n THEN video_erase_char ELSE v[i]]
Moved(v, from, to, n) ==
    IF ~Inside(from, n) \/ ~Inside(to, n) THEN NoMemory
    ELSE [i \in VideoMem |-> IF to <= i /\ i < to + n THEN v[from + i - to] ELSE v[i]]

RowAt(c, r) == c.origin + r * video_num_columns

gotoxy(c, new_x, new_y) ==
    IF new_x \notin 0 .. video_num_columns \/ new_y \notin 0 .. video_num_lines - 1
    THEN c
    ELSE [c EXCEPT !.x = new_x, !.y = new_y,
                   !.pos = c.origin + new_y * video_num_columns + new_x]

\* Mutant: the new last row is not erased when the screen is copied back.
scroll_origin_unerased(c) ==
    LET row == video_num_columns
        o   == c.origin + row
    IN  IF c.scr_end + row > VideoCells
        THEN [c EXCEPT !.video = Moved(@, o, 0, ScreenSize - row),
                       !.origin = 0, !.scr_end = @ + row - o, !.pos = @ + row - o]
        ELSE [c EXCEPT !.video = Erased(@, c.scr_end, row),
                       !.origin = o, !.scr_end = @ + row, !.pos = @ + row]

\* An EGA scrolls by moving the origin; at the end of the video memory the
\* screen is copied back to its start.
scroll_origin(c) ==
    LET row == video_num_columns
        o   == c.origin + row
    IN  IF c.scr_end + row > VideoCells
        THEN [c EXCEPT !.video = Erased(Moved(@, o, 0, ScreenSize - row),
                                        ScreenSize - row, row),
                       !.origin = 0, !.scr_end = @ + row - o, !.pos = @ + row - o]
        ELSE [c EXCEPT !.video = Erased(@, c.scr_end, row),
                       !.origin = o, !.scr_end = @ + row, !.pos = @ + row]

scrup(c) ==
    LET rows == (c.bottom - c.top - 1) * video_num_columns
    IN  IF c.ega /\ c.top = 0 /\ c.bottom = video_num_lines
        THEN scroll_origin(c)
        ELSE [c EXCEPT !.video = Erased(Moved(@, RowAt(c, c.top + 1), RowAt(c, c.top), rows),
                                        RowAt(c, c.top) + rows, video_num_columns)]

scrdown(c) ==
    LET rows == (c.bottom - c.top - 1) * video_num_columns
    IN  [c EXCEPT !.video = Erased(Moved(@, RowAt(c, c.top), RowAt(c, c.top + 1), rows),
                                   RowAt(c, c.top), video_num_columns)]

lf(c) == IF c.y + 1 < c.bottom
         THEN [c EXCEPT !.y = @ + 1, !.pos = @ + video_num_columns]
         ELSE scrup(c)

ri(c) == IF c.y > c.top
         THEN [c EXCEPT !.y = @ - 1, !.pos = @ - video_num_columns]
         ELSE scrdown(c)

cr(c) == [c EXCEPT !.pos = @ - c.x, !.x = 0]

backspace(c) == IF c.x = 0 THEN c ELSE [c EXCEPT !.x = @ - 1, !.pos = @ - 1]

del(c) == IF c.x = 0 THEN c
          ELSE [backspace(c) EXCEPT !.video = Erased(@, c.pos - 1, 1)]

\* The cursor behind the last column goes to the next row.
wrap(c) == lf([c EXCEPT !.x = @ - video_num_columns, !.pos = @ - video_num_columns])

put_char(c, a) ==
    LET d == IF c.x >= video_num_columns THEN wrap(c) ELSE c
    IN  [d EXCEPT !.video = IF d.pos \in VideoMem THEN [@ EXCEPT ![d.pos] = a] ELSE NoMemory,
                  !.pos = @ + 1, !.x = @ + 1]

tab(c) ==
    LET n == TabStops - (c.x % TabStops)
        d == [c EXCEPT !.x = @ + n, !.pos = @ + n]
    IN  IF d.x > video_num_columns THEN wrap(d) ELSE d

-----------------------------------------------------------------------------
csi_J(c, p) ==
    CASE p = 0 -> [c EXCEPT !.video = Erased(@, c.pos, c.scr_end - c.pos)]
      [] p = 1 -> [c EXCEPT !.video = Erased(@, c.origin, c.pos - c.origin)]
      [] p = 2 -> [c EXCEPT !.video = Erased(@, c.origin, ScreenSize)]
      [] OTHER -> c

csi_K(c, p) ==
    CASE p = 0 /\ c.x < video_num_columns ->
            [c EXCEPT !.video = Erased(@, c.pos, video_num_columns - c.x)]
      [] p = 1 -> [c EXCEPT !.video = Erased(@, c.pos - c.x, c.x)]
      [] p = 2 -> [c EXCEPT !.video = Erased(@, c.pos - c.x, video_num_columns)]
      [] OTHER -> c

insert_char(c) ==
    IF c.x >= video_num_columns THEN c
    ELSE [c EXCEPT !.video = Erased(Moved(@, c.pos, c.pos + 1, video_num_columns - c.x - 1),
                                    c.pos, 1)]

delete_char(c) ==
    IF c.x >= video_num_columns THEN c
    ELSE LET n == video_num_columns - c.x - 1
         IN  [c EXCEPT !.video = Erased(Moved(@, c.pos + 1, c.pos, n), c.pos + n, 1)]

\* Both set the region to the rows from the cursor down, for this call.
OnRestOfScreen(c) == [c EXCEPT !.top = c.y, !.bottom = video_num_lines]
WithRegionOf(d, c) == [d EXCEPT !.top = c.top, !.bottom = c.bottom]
insert_line(c) == WithRegionOf(scrdown(OnRestOfScreen(c)), c)
delete_line(c) == WithRegionOf(scrup(OnRestOfScreen(c)), c)

\* csi_at, csi_L, csi_P, csi_M: nr times, at least once, at most limit times.
Times(nr, limit) == IF nr > limit THEN limit ELSE IF nr = 0 THEN 1 ELSE nr
Repeated(Op(_), c, nr) ==
    LET after[k \in 0 .. nr] == IF k = 0 THEN c ELSE Op(after[k - 1])
    IN  after[nr]
csi_at(c, nr) == Repeated(insert_char, c, Times(nr, video_num_columns))
csi_L(c, nr) == Repeated(insert_line, c, Times(nr, video_num_lines))
csi_P(c, nr) == Repeated(delete_char, c, Times(nr, video_num_columns))
csi_M(c, nr) == Repeated(delete_line, c, Times(nr, video_num_lines))

\* The last of the parameters that means something counts.
csi_m ==
    LET meant == {i \in 0 .. npar : par[i] \in {0, 1, 4, 7, 27}}
        last  == CHOOSE i \in meant : \A j \in meant : j <= i
    IN  IF meant = {} THEN attr
        ELSE CASE par[last] \in {0, 27} -> "normal"
               [] par[last] \in {1, 4} -> "bright"
               [] OTHER -> "reverse"

-----------------------------------------------------------------------------
\* What is on the screen at boot is left out: the cells start blank.
con_init ==
    /\ \E e \in BOOLEAN, i \in 0 .. video_num_columns - 1, j \in 0 .. video_num_lines - 1 :
          con = [ega |-> e, video |-> [n \in VideoMem |-> video_erase_char],
                 origin |-> 0, scr_end |-> ScreenSize, top |-> 0, bottom |-> video_num_lines,
                 x |-> i, y |-> j, pos |-> j * video_num_columns + i]
    /\ state = 0 /\ npar = 0 /\ par = [i \in 0 .. NPAR - 1 |-> 0]
    /\ attr = "normal"
    /\ saved = [x |-> 0, y |-> 0]

-----------------------------------------------------------------------------
\* con_write, one character.  State 0: no escape sequence.
write_char ==
    /\ state = 0
    /\ con' = put_char(con, attr)
    /\ Cardinality({i \in VideoMem : con'.video[i] # video_erase_char}) <= MaxMarks
    /\ UNCHANGED <<state, npar, par, attr, saved>>

write_control ==
    /\ state = 0
    /\ con' \in {lf(con), cr(con), del(con), backspace(con), tab(con)}
    /\ UNCHANGED <<state, npar, par, attr, saved>>

write_escape == state = 0 /\ state' = 1 /\ UNCHANGED <<con, npar, par, attr, saved>>

\* State 1, the character after ESC: [, then E, M and D, then anything else
\* (Z answers through the terminal's queue).  For the commands 7 and 8 the
\* code compares x, not the character.
escape_csi == state = 1 /\ state' = 2 /\ UNCHANGED <<con, npar, par, attr, saved>>

escape_move ==
    /\ state = 1 /\ state' = 0
    /\ con' \in {gotoxy(con, 0, con.y + 1), ri(con), lf(con)}
    /\ UNCHANGED <<npar, par, attr, saved>>

escape_other ==
    /\ state = 1 /\ state' = 0
    /\ saved' = IF con.x = Code7 THEN [x |-> con.x, y |-> con.y] ELSE saved
    /\ con' = IF con.x = Code8 /\ con.x # Code7 THEN gotoxy(con, saved.x, saved.y) ELSE con
    /\ UNCHANGED <<npar, par, attr>>

\* States 2 and 3, the parameters; 2 only differs in that it takes a question
\* mark.  The code clears the parameters in state 2; nothing reads them
\* before that, so they are cleared here when the sequence ends.
csi_question == state = 2 /\ state' = 3 /\ UNCHANGED <<con, npar, par, attr, saved>>

csi_separator ==
    /\ state \in {2, 3} /\ npar < NPAR - 1
    /\ npar' = npar + 1 /\ state' = 3
    /\ UNCHANGED <<con, par, attr, saved>>

csi_digit ==
    /\ state \in {2, 3} /\ state' = 3
    /\ \E d \in Digits : /\ 10 * par[npar] + d <= MaxPar
                         /\ par' = [par EXCEPT ![npar] = 10 * @ + d]
    /\ UNCHANGED <<con, npar, attr, saved>>

\* State 4, the command.
EndSequence == state \in {2, 3} /\ state' = 0 /\ npar' = 0 /\ par' = [i \in DOMAIN par |-> 0]

OneLess(n) == IF n > 0 THEN n - 1 ELSE 0
AtLeastOne(n) == IF n = 0 THEN 1 ELSE n

csi_cursor ==
    LET n == AtLeastOne(par[0])
    IN  /\ EndSequence
        /\ con' \in {gotoxy(con, OneLess(par[0]), con.y),
                     gotoxy(con, con.x, con.y - n), gotoxy(con, con.x, con.y + n),
                     gotoxy(con, con.x + n, con.y), gotoxy(con, con.x - n, con.y),
                     gotoxy(con, 0, con.y + n), gotoxy(con, 0, con.y - n),
                     gotoxy(con, con.x, OneLess(par[0])),
                     gotoxy(con, OneLess(par[1]), OneLess(par[0]))}
        /\ UNCHANGED <<attr, saved>>

csi_edit ==
    /\ EndSequence
    /\ con' \in {csi_J(con, par[0]), csi_K(con, par[0]), csi_L(con, par[0]),
                 csi_M(con, par[0]), csi_P(con, par[0]), csi_at(con, par[0])}
    /\ UNCHANGED <<attr, saved>>

csi_attribute == EndSequence /\ attr' = csi_m /\ UNCHANGED <<con, saved>>

csi_r ==
    LET t == OneLess(par[0])
        b == IF par[1] = 0 THEN video_num_lines ELSE par[1]
    IN  /\ EndSequence
        /\ con' = IF t < b /\ b <= video_num_lines
                  THEN [con EXCEPT !.top = t, !.bottom = b] ELSE con
        /\ UNCHANGED <<attr, saved>>

save_cur == EndSequence /\ saved' = [x |-> con.x, y |-> con.y] /\ UNCHANGED <<con, attr>>

restore_cur ==
    EndSequence /\ con' = gotoxy(con, saved.x, saved.y) /\ UNCHANGED <<attr, saved>>

\* A character that is no command, a separator too many among them.
csi_ignored == EndSequence /\ UNCHANGED <<con, attr, saved>>

con_write ==
    \/ write_char \/ write_control \/ write_escape
    \/ escape_csi \/ escape_move \/ escape_other
    \/ csi_question \/ csi_separator \/ csi_digit
    \/ csi_cursor \/ csi_edit \/ csi_attribute \/ csi_r \/ save_cur \/ restore_cur
    \/ csi_ignored

-----------------------------------------------------------------------------
\* Types; the screen lies in the video memory, pos is the address of the
\* cursor, and no store went outside the video memory.
ConTypeOK ==
    /\ con.video \in [VideoMem -> Attributes] /\ con.ega \in BOOLEAN
    /\ con.x \in 0 .. video_num_columns /\ con.y \in 0 .. video_num_lines - 1
    /\ con.top \in 0 .. con.bottom - 1 /\ con.bottom \in 1 .. video_num_lines
    /\ con.origin \in 0 .. VideoCells - ScreenSize /\ con.scr_end = con.origin + ScreenSize
    /\ con.pos = RowAt(con, con.y) + con.x
    /\ state \in 0 .. 3 /\ npar \in 0 .. NPAR - 1 /\ par \in [0 .. NPAR - 1 -> 0 .. MaxPar]
    /\ attr \in Attributes
    /\ saved.x \in 0 .. video_num_columns /\ saved.y \in 0 .. video_num_lines - 1

\* The video memory as a screen: its cells from the origin on.
Shown == [cell |-> [k \in 0 .. ScreenSize - 1 |-> con.video[con.origin + k]],
          x |-> con.x, y |-> con.y, top |-> con.top, bottom |-> con.bottom]

TheScreen == INSTANCE Screen WITH Columns <- video_num_columns, Lines <- video_num_lines,
                 Stops <- TabStops, Values <- Attributes, Empty <- video_erase_char, scr <- Shown

\* On every display the console is the screen of module Screen: a character
\* does to the rows from the origin on what the command says, whether the
\* display scrolls by moving the origin (and at the end of the video memory
\* by copying the screen back) or by moving the rows, and whatever commands
\* came before (scrup, scrdown, lf and the commands built from them).
ShowsAScreen == TheScreen!Spec
=============================================================================
