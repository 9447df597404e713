-------------------------------- MODULE S3cfb --------------------------------
(***************************************************************************)
(* frambuffer/samsung/s3cfb.c after its probe: processes open the windows  *)
(* of the display controller, change their geometry, pan, blank and close  *)
(* them, while win_power of sysfs, early suspend and late resume run       *)
(* beside them.  The kernel's frame buffer core (external) calls the       *)
(* operations of one window one at a time; those of different windows,     *)
(* sysfs and suspend overlap.  The vsync interrupt is left out, with the   *)
(* completion it makes, which the driver makes anew when it resumes and    *)
(* only the ioctl that waits for vsync looks at.                           *)
(*                                                                         *)
(* A call is the sequence of steps its function stands for (see Fimd).  It *)
(* runs whole, or it is overtaken: it stops before one of its shared steps *)
(* and other calls run until it goes on.                                   *)
(***************************************************************************)
EXTENDS Fimd, FiniteSets

CONSTANTS
  NrWins,    \* pdata->nr_wins
  Default,   \* pdata->default_win
  Proc,      \* processes with one open file each
  Sysfs, Pm, \* the writer of win_power; the power management
  Width,     \* of the screen; its height is the unit of rows
  Vars,      \* the geometries asked for: xres, rows (yres_virtual), yoffset, format
  Places,    \* the window positions asked for
  Keys,      \* the chroma keys asked for
  MaxCalls,  \* bound: this many calls are made, an overtaken one counting as two
  MaxOver,   \* bound: this many of them are overtaken
  NULL

Win == 0 .. NrWins - 1
Agents == Proc \cup {Sysfs, Pm}

ASSUME S3cfbAssumption ==
  /\ NrWins \in Nat \ {0} /\ Default \in Win
  /\ Sysfs \notin Proc /\ Pm \notin Proc /\ Sysfs # Pm /\ NULL \notin Agents \cup Win
  /\ Vars \subseteq [xres : Nat, rows : Nat, yoffset : Nat, format : Formats]
  /\ Width \in Nat \ {0} /\ Places \subseteq Nat /\ MaxCalls \in Nat /\ MaxOver \in Nat

VARIABLES
  reg,      \* the registers of the controller
  win,      \* struct s3cfb_window with the fb_info of each window
  power,    \* is the controller powered and clocked?
  lock,     \* who holds fbdev->lock, as the lock has it: NULL if it is free
  file,     \* which window each process has open
  todo,     \* the steps that are left of each overtaken call
  cfg,      \* the local variable cfg (or shw) of each overtaken call
  start,    \* the local variable start_addr of each overtaken call
  touched,  \* history: windows that two calls have worked on at the same time, or
            \* that win_power has changed while they were not open
  lost,     \* history: windows whose registers went with the power and that no
            \* resume has set up since
  missed,   \* history: windows that a call has worked on while the controller was off,
            \* and neither a resume nor the loss of the registers has made good for
  calls,    \* how many calls have been made
  over      \* how many of them have been overtaken

vars == <<reg, win, power, lock, file, todo, cfg, start, touched, lost, missed, calls, over>>

FieldRegs == {VIDCON0, VIDINTCON0, WINSHMAP} \cup {WINCON(w) : w \in Win}
ValueRegs == {<<"VIDCON1">>, <<"VIDTCON0">>, <<"VIDTCON1">>, <<"VIDTCON2">>}
             \cup {"VIDADDR", "VIDADDR_SIZE", "VIDOSD_A", "VIDOSD_B",
                   "VIDOSD_C", "VIDOSD_SIZE", "KEYCON"} \X Win
Reset == [r \in FieldRegs \cup ValueRegs |-> IF r \in FieldRegs THEN {} ELSE 0]

Busy(a) == todo[a] # <<>>
Idle == \A a \in Agents : ~Busy(a)

(* The window a process is about to open, and the windows an agent's call  *)
(* may work on                                                             *)
Opening(a) == {w \in Win : Busy(a) /\ todo[a][Len(todo[a])] = [do |-> "count", w |-> w]}
Scope(a) == IF a \in Proc THEN ({file[a]} \cup Opening(a)) \cap Win ELSE Win

(* smem_start is not zero: its rows are numbered from 1                    *)
Address(r) == IF r.mem THEN r.yoffset + 1 ELSE 0

-----------------------------------------------------------------------------
(* The functions of s3cfb.c as sequences of steps                          *)

s3cfb_set_window(w, on) ==
  (IF on THEN s3cfb_window_on(w) ELSE s3cfb_window_off(w)) \o Assign(w, "enabled", on)

(* A lock that is made anew is free, whoever holds it.                     *)
s3cfb_init_global ==
  <<[do |-> "mutex_init"]>> \o s3cfb_set_output \o s3cfb_set_display_mode \o s3cfb_set_polarity
  \o s3cfb_set_timing \o s3cfb_set_lcd_size

(* What is mapped stays; the allocation may fail, and no caller looks.     *)
s3cfb_map_video_memory(w, ok) == <<[do |-> "map", w |-> w, ok |-> ok]>>

s3cfb_unmap_video_memory(w) == <<[do |-> "unmap", w |-> w]>>

s3cfb_set_win_params(w) ==
  s3cfb_set_window_control(w) \o s3cfb_set_window_position(w)
  \o s3cfb_set_window_size(w) \o s3cfb_set_buffer_address(w)
  \o s3cfb_set_buffer_size(w)
  \o (IF w > 0 THEN s3cfb_set_alpha_blending(w) \o s3cfb_set_chroma_key(w) ELSE <<>>)

s3cfb_set_par(w, ok) ==
  (IF w # Default THEN s3cfb_map_video_memory(w, ok) ELSE <<>>) \o s3cfb_set_win_params(w)

Least(m, n) == IF m < n THEN m ELSE n

(* xres is cut to the screen, the rows on display to those there are, and  *)
(* a window that would leave the screen is moved; a format with            *)
(* transparency blends by pixel.                                           *)
s3cfb_check_var(w, v) ==
  LET xres == Least(v.xres, Width) IN
  [xres |-> xres, rows |-> v.rows, yoffset |-> Least(v.yoffset, v.rows - 1),
   format |-> v.format, x |-> Least(win[w].x, Width - xres),
   alpha |-> IF v.format \in {"16BPP_565", "24BPP"} THEN "BLD_PLANE" ELSE "BLD_PIXEL"]

s3cfb_pan_display(w, yoffset, rows) ==
  IF yoffset + 1 > rows THEN <<>>
  ELSE Assign(w, "yoffset", yoffset) \o s3cfb_set_buffer_address(w)

(* FBIOPUT_VSCREENINFO: the core checks the geometry, stores it, has it    *)
(* put into the registers and pans to its offset.                          *)
fb_set_var(w, v, ok) ==
  LET c == s3cfb_check_var(w, v) IN
  Assign(w, "x", c.x) \o Assign(w, "alpha", c.alpha)
  \o Assign(w, "xres", c.xres) \o Assign(w, "rows", c.rows)
  \o Assign(w, "yoffset", c.yoffset) \o Assign(w, "format", c.format)
  \o s3cfb_set_par(w, ok) \o s3cfb_pan_display(w, c.yoffset, c.rows)

(* The colour map that hides the picture is left out.                      *)
s3cfb_blank(w, mode) ==
  CASE mode = "unblank" -> IF win[w].mem THEN s3cfb_set_window(w, TRUE) ELSE <<>>
    [] mode = "normal" -> s3cfb_set_window(w, TRUE)
    [] mode = "powerdown" -> s3cfb_set_window(w, FALSE)

(* The step that counts the users gives the lock back.                     *)
Locked(o) == <<[do |-> "lock"]>> \o <<o>>

s3cfb_open(w) == Locked([do |-> "count", w |-> w])

(* Mutant: the memory goes before the window is off.                       *)
ReleaseMemoryFirst(w) ==
  (IF w # Default
   THEN s3cfb_unmap_video_memory(w) \o s3cfb_set_window(w, FALSE)
        \o s3cfb_set_buffer_address(w)
   ELSE <<>>)
  \o Assign(w, "x", 0)

s3cfb_release_window(w) ==
  (IF w # Default
   THEN s3cfb_set_window(w, FALSE) \o s3cfb_unmap_video_memory(w)
        \o s3cfb_set_buffer_address(w)
   ELSE <<>>)
  \o Assign(w, "x", 0)

s3cfb_release(w) ==
  s3cfb_release_window(w) \o Locked([do |-> "discount", w |-> w])

WinPosition(w, x) ==
  Assign(w, "x", Least(x, Width - win[w].xres)) \o s3cfb_set_window_position(w)

SetPlaneAlpha(w) == Assign(w, "alpha", "BLD_PLANE") \o s3cfb_set_alpha_blending(w)

SetChroma(w, key) == Assign(w, "chroma", key) \o s3cfb_set_chroma_key(w)

(* The power domain keeps the registers if another device needs it.        *)
s3cfb_early_suspend(keep) ==
  s3cfb_display_off \o <<[do |-> "power", on |-> FALSE, keep |-> keep]>>

(* Mutant: the windows are turned on as they are.                          *)
RestoreWindowOnly(w, ok) == s3cfb_set_window(w, TRUE)

RestoreWindow(w, ok) == s3cfb_set_par(w, ok) \o s3cfb_set_window(w, TRUE)

s3cfb_late_resume(ok) ==
  <<[do |-> "power", on |-> TRUE, keep |-> TRUE]>> \o s3cfb_init_global \o s3cfb_set_clock
  \o s3cfb_display_on
  \o [i \in 1 .. NrWins |->
        [do |-> "restore", w |-> (Default + i - 1) % NrWins, ok |-> ok]]
  \o s3cfb_set_vsync_interrupt(TRUE) \o s3cfb_set_global_interrupt(TRUE)

-----------------------------------------------------------------------------
(* What the probe leaves: the default window is mapped and on.             *)
Init ==
  /\ reg = [r \in FieldRegs \cup ValueRegs |->
       CASE r = VIDCON0 -> {"VIDOUT_RGB", "RGB_P", "CLKVAL", "ENVID", "ENVID_F"}
         [] r = VIDINTCON0 -> {"INTFRM", "INT", "VSYNC"}
         [] r = WINSHMAP -> {Ch(Default)}
         [] r = WINCON(Default) -> {"ENWIN", "32BPP"} \cup
                                   (IF Default = 0 THEN {} ELSE {"BLD_PIXEL"})
         [] r \in {<<"VIDADDR", Default>>} \cup {<<v>> : v \in {"VIDCON1", "VIDTCON0",
                    "VIDTCON1", "VIDTCON2"}} -> 1
         [] r[1] \in {"VIDOSD_B", "VIDOSD_SIZE", "VIDADDR_SIZE"} /\ r[2] = Default ->
              IF r[1] = "VIDOSD_SIZE" /\ Default > 2 THEN 0 ELSE Width
         [] r = <<"VIDOSD_C", Default>> /\ Default > 0 -> "BLD_PIXEL"
         [] OTHER -> Reset[r]]
  /\ win = [w \in Win |->
       [enabled |-> w = Default, mem |-> w = Default, in_use |-> 0, x |-> 0,
        xres |-> Width, rows |-> 1, yoffset |-> 0, format |-> "32BPP",
        alpha |-> "BLD_PIXEL", chroma |-> 0]]
  /\ power = TRUE /\ lock = NULL
  /\ file = [p \in Proc |-> NULL]
  /\ todo = [a \in Agents |-> <<>>]
  /\ cfg = [a \in Agents |-> {}] /\ start = [a \in Agents |-> 0]
  /\ touched = {} /\ lost = {} /\ missed = {} /\ calls = 0 /\ over = 0

-----------------------------------------------------------------------------
(* What one step of agent a does.  A store to a controller without power   *)
(* is lost.                                                                *)
Write(s, r, v) == IF s.power THEN [s EXCEPT !.reg[r] = v] ELSE s

Fields(s, a, o, new) ==
  LET v == (s.cfg \ o.clear) \cup new
  IN  [Write(s, o.reg, v) EXCEPT !.cfg = v]

(* Mutant: every window may be shared.                                     *)
CountAnyway(s, a, w) == [s EXCEPT !.win[w].in_use = @ + 1, !.file[a] = w, !.lock = NULL]

(* in_use of s3cfb_open, or -EBUSY and no file                             *)
Count(s, a, w) ==
  IF s.win[w].in_use > 0 /\ w # Default THEN [s EXCEPT !.file[a] = NULL, !.lock = NULL]
  ELSE [s EXCEPT !.win[w].in_use = @ + 1, !.file[a] = w, !.lock = NULL]

(* in_use of s3cfb_release; the file is closed                             *)
Discount(s, a, w) ==
  [s EXCEPT !.win[w].in_use = IF @ > 0 THEN @ - 1 ELSE @, !.file[a] = NULL, !.lock = NULL]

Power(s, o) ==
  IF o.keep THEN [s EXCEPT !.power = o.on]
  ELSE [s EXCEPT !.power = o.on, !.reg = Reset, !.lost = Win, !.missed = {}]

Exec(a, s, o) ==
  CASE o.do = "load"     -> [s EXCEPT !.cfg = s.reg[o.reg]]
    [] o.do = "store"    -> Fields(s, a, o, o.set)
    [] o.do = "merge"    -> Fields(s, a, o, {s.win[o.w][o.f]} \cap o.clear)
    [] o.do = "put"      -> Write(s, o.reg, o.v)
    [] o.do = "copy"     -> Write(s, o.reg, s.win[o.w][o.f])
    [] o.do = "address"  -> [s EXCEPT !.start = Address(s.win[o.w])]
    [] o.do = "start"    -> Write(s, o.reg, s.start)
    [] o.do = "assign"   -> [s EXCEPT !.win[o.w][o.f] = o.v]
    [] o.do = "map"      -> [s EXCEPT !.win[o.w].mem = @ \/ o.ok]
    [] o.do = "unmap"    -> [s EXCEPT !.win[o.w].mem = FALSE]
    [] o.do = "count"    -> Count(s, a, o.w)
    [] o.do = "discount" -> Discount(s, a, o.w)
    [] o.do = "power"    -> Power(s, o)
    [] o.do = "lock"     -> [s EXCEPT !.lock = a]
    [] o.do = "mutex_init" -> [s EXCEPT !.lock = NULL]

(* What remains of state s when the steps have been executed in turn by op *)
Each(op(_, _), s, steps) ==
  LET after[n \in 0 .. Len(steps)] == IF n = 0 THEN s ELSE op(after[n - 1], steps[n])
  IN  after[Len(steps)]

(* s3cfb_late_resume looks at one window and restores it if it is on.      *)
Restore(a, s, o) ==
  IF ~s.win[o.w].enabled THEN s
  ELSE [Each(LAMBDA t, x : Exec(a, t, x), s, RestoreWindow(o.w, o.ok))
          EXCEPT !.lost = @ \ {o.w}, !.missed = @ \ {o.w}]

RunAll(a, s, steps) ==
  Each(LAMBDA t, o : IF o.do = "restore" THEN Restore(a, t, o) ELSE Exec(a, t, o),
       s, steps)

State(a) == [reg |-> reg, win |-> win, power |-> power, lock |-> lock, file |-> file,
             cfg |-> cfg[a], start |-> start[a], lost |-> lost, missed |-> missed]

(* Agent a runs steps, and stops with rest still to do.                    *)
Becomes(a, s, rest) ==
  /\ reg' = s.reg /\ win' = s.win /\ power' = s.power /\ file' = s.file
  /\ lock' = s.lock /\ lost' = s.lost /\ missed' = s.missed
  /\ todo' = [todo EXCEPT ![a] = rest]
  /\ cfg' = [cfg EXCEPT ![a] = IF rest = <<>> THEN {} ELSE s.cfg]
  /\ start' = [start EXCEPT ![a] = IF rest = <<>> THEN 0 ELSE s.start]

(* Where a call may be overtaken: before it takes the lock and before it   *)
(* counts users, before it loses power or looks at a window, before it     *)
(* stores what it has loaded from a register that other windows use too,   *)
(* and once it has given memory back.                                      *)
Visible(o) ==
  \/ o.do \in {"lock", "count", "discount", "power", "restore"}
  \/ o.do = "store" /\ o.reg \in {VIDCON0, VIDINTCON0, WINSHMAP}

(* The power management is the one to work on a controller without power.  *)
Entered(a, W) ==
  [State(a) EXCEPT !.missed = IF power \/ a = Pm THEN @ ELSE @ \cup W]

(* The steps do not wait for the lock.                                     *)
Free(steps) == lock = NULL \/ \A n \in 1 .. Len(steps) : steps[n].do # "lock"

(* Agent a begins a call on the windows W.                                 *)
Enter(a, W, steps) ==
  LET others == {b \in Agents : Busy(b)} IN
  /\ ~Busy(a) /\ calls + over < MaxCalls /\ calls' = calls + 1
  /\ touched' = touched \cup {w \in W : \E b \in others : w \in Scope(b)}
                        \cup {w \in W : a = Sysfs /\ win[w].in_use = 0}
  /\ \/ /\ Free(steps) /\ UNCHANGED over
        /\ Becomes(a, RunAll(a, Entered(a, W), steps), <<>>)
     \/ \E k \in 2 .. Len(steps) :
          /\ Visible(steps[k]) \/ steps[k - 1].do = "unmap"
          /\ Free(SubSeq(steps, 1, k - 1))
          /\ over < MaxOver /\ calls + over + 1 < MaxCalls /\ over' = over + 1
          /\ Becomes(a, RunAll(a, Entered(a, W), SubSeq(steps, 1, k - 1)),
                     SubSeq(steps, k, Len(steps)))

(* An overtaken call goes on.                                              *)
Continue(a) ==
  /\ Busy(a) /\ Free(todo[a]) /\ Becomes(a, RunAll(a, State(a), todo[a]), <<>>)
  /\ UNCHANGED <<touched, calls, over>>

(* The core holds the window's lock during a call.                         *)
Call(p, w, steps) ==
  /\ \A q \in Proc : Busy(q) => w \notin Scope(q)
  /\ Enter(p, {w}, steps)

Open(p, w) == file[p] = NULL /\ Call(p, w, s3cfb_open(w))

Own(p, steps) == file[p] # NULL /\ Call(p, file[p], steps)

Release(p) == Own(p, s3cfb_release(file[p]))

SetVar(p, v, ok) == Own(p, fb_set_var(file[p], v, ok))

Pan(p, yoffset) == Own(p, s3cfb_pan_display(file[p], yoffset, win[file[p]].rows))

Blank(p, mode) == Own(p, s3cfb_blank(file[p], mode))

s3cfb_ioctl(p) ==
  \/ \E x \in Places : Own(p, WinPosition(file[p], x))
  \/ Own(p, SetPlaneAlpha(file[p]))
  \/ \E key \in Keys : Own(p, SetChroma(file[p], key))

StoreWinPower(w, on) == Enter(Sysfs, {w}, s3cfb_set_window(w, on))

EarlySuspend(keep) == power /\ Enter(Pm, Win, s3cfb_early_suspend(keep))

LateResume(ok) == ~power /\ Enter(Pm, Win, s3cfb_late_resume(ok))

Next ==
  \/ \E p \in Proc :
       \/ \E w \in Win : Open(p, w)
       \/ Release(p)
       \/ \E v \in Vars, ok \in BOOLEAN : SetVar(p, v, ok)
       \/ \E y \in 0 .. 1 : Pan(p, y)
       \/ \E mode \in {"unblank", "normal", "powerdown"} : Blank(p, mode)
       \/ s3cfb_ioctl(p)
  \/ \E w \in Win, on \in BOOLEAN : StoreWinPower(w, on)
  \/ \E b \in BOOLEAN : EarlySuspend(b) \/ LateResume(b)
  \/ \E a \in Agents : Continue(a)

Spec == Init /\ [][Next]_vars

-----------------------------------------------------------------------------
AtRest(w) == \A a \in Agents : Busy(a) => w \notin Scope(a)
Undisturbed(w) == w \notin touched \cup missed

(* What the screen shows is what the driver believes: between calls, the   *)
(* registers of a window that is on hold its geometry, address, format and *)
(* blending, through any calls for other windows, suspends and resumes.    *)
(* Calls that do not overlap leave the channel of a window on exactly when *)
(* the window is, and no window protected from updates.                    *)
(* Not so, and excepted: a window that calls have worked on at the same    *)
(* time (touched); one that a call has worked on while the controller was  *)
(* powered down, which drops the stores, if it was not on when the driver  *)
(* resumed, for only then is it set up again (missed); and the geometry of *)
(* one that was off when the driver resumed from a loss of the registers   *)
(* (lost), which nothing sets up when it is turned on later.               *)
HardwareFollows ==
  power =>
  /\ over = 0 =>
       /\ \A w \in Win \ missed : Ch(w) \in reg[WINSHMAP] <=> win[w].enabled
       /\ \A w \in Win : Protect(w) \notin reg[WINSHMAP]
  /\ \A w \in Win : AtRest(w) /\ Undisturbed(w) =>
    /\ (win[w].enabled <=> "ENWIN" \in reg[WINCON(w)])
    /\ win[w].enabled /\ win[w].mem /\ w \notin lost =>
         /\ reg[<<"VIDADDR", w>>] = Address(win[w])
         /\ w # Default => reg[<<"VIDOSD_A", w>>] = win[w].x
         /\ reg[<<"VIDOSD_B", w>>] = win[w].xres
         /\ reg[WINCON(w)] \cap BppMode = {win[w].format} \cap BppMode
         /\ w > 0 => /\ win[w].alpha \in reg[WINCON(w)]
                     /\ reg[<<"KEYCON", w>>] = win[w].chroma

(* The controller does not fetch a picture from memory that the driver has *)
(* given back: a window is off before its memory goes, and its address is  *)
(* cleared before it can be on again - through suspends and resumes too, if*)
(* no two calls worked on the window at the same time (touched) and none   *)
(* worked on it while the controller was powered down (missed): a window   *)
(* that is closed then has its memory freed, but is not turned off, and the*)
(* resume passes it over.                                                  *)
NeverScansFreed ==
  \A w \in Win : Undisturbed(w) /\ "ENWIN" \in reg[WINCON(w)]
                 /\ reg[<<"VIDADDR", w>>] # 0 => win[w].mem

(* in_use counts the files; an overlay window has one user at most, and    *)
(* when it has none it owns no memory and is at the origin again.  A       *)
(* resume, which makes the lock of the counting anew while it is held, does*)
(* not change that.                                                        *)
UsersCounted ==
  \A w \in Win :
    LET users == {p \in Proc : file[p] = w} IN
    /\ AtRest(w) => win[w].in_use = Cardinality(users)
    /\ w # Default => win[w].in_use <= 1
    /\ w # Default /\ win[w].in_use = 0 /\ w \notin touched => ~win[w].mem /\ win[w].x = 0
=============================================================================
