-------------------------------- MODULE Fimd --------------------------------
(***************************************************************************)
(* frambuffer/samsung/s3cfb_fimd6x.c: the functions that program the       *)
(* display controller.  None of them takes a lock, so each is written as   *)
(* the sequence of the steps between which another call may run: loads and *)
(* stores of registers, and assignments to the driver's structures.  The   *)
(* functions of s3cfb.c concatenate these sequences; S3cfb executes them.  *)
(*                                                                         *)
(* A register is a tuple of its name and, if it has one, its window.  One  *)
(* that is loaded, changed and stored is the set of its fields' settings;  *)
(* one that is only written holds a value.                                 *)
(***************************************************************************)
EXTENDS Integers, Sequences

VIDCON0    == <<"VIDCON0">>      \* display on, output, clock
VIDINTCON0 == <<"VIDINTCON0">>   \* which interrupts are enabled
WINSHMAP   == <<"WINSHMAP">>     \* one register for the channels of all windows
WINCON(w)  == <<"WINCON", w>>    \* window on, data path, format, blending

(* Fields of WINSHMAP                                                      *)
Ch(w)      == <<"CH", w>>
Protect(w) == <<"PROTECT", w>>

(* Formats of a picture.  Settings of WINCON: one format, of those that    *)
(* have a setting, and one way of blending at a time.                      *)
Formats == {"16BPP_565", "16BPP_A555", "16BPP_A444", "24BPP", "32BPP"}
BppMode == Formats \ {"24BPP"}
Blends  == {"BLD_PIXEL", "BLD_PLANE"}

(* Steps: load a register into cfg; change fields of cfg and store it; the *)
(* same with a setting taken from a field of the window, if it is one of   *)
(* those that are cleared; store a value; a window's field; assign to a    *)
(* field of the window.                                                    *)
Load(r)               == [do |-> "load", reg |-> r]
Store(r, set, clear)  == [do |-> "store", reg |-> r, set |-> set, clear |-> clear]
Merge(r, w, f, clear) == [do |-> "merge", reg |-> r, w |-> w, f |-> f, clear |-> clear]
Put(r, v)             == <<[do |-> "put", reg |-> r, v |-> v]>>
Copy(r, w, f)         == <<[do |-> "copy", reg |-> r, w |-> w, f |-> f]>>
Assign(w, f, v)       == <<[do |-> "assign", w |-> w, f |-> f, v |-> v]>>

Modify(r, set, clear) == <<Load(r), Store(r, set, clear)>>

-----------------------------------------------------------------------------
(* The display as a whole                                                  *)

s3cfb_set_output       == Modify(VIDCON0, {"VIDOUT_RGB"}, {})
s3cfb_set_display_mode == Modify(VIDCON0, {"RGB_P"}, {})
s3cfb_set_clock        == Modify(VIDCON0, {"CLKVAL"}, {})

s3cfb_display_on  == Modify(VIDCON0, {"ENVID", "ENVID_F"}, {})
s3cfb_display_off == <<Load(VIDCON0), Store(VIDCON0, {}, {"ENVID"}),
                       Store(VIDCON0, {}, {"ENVID_F"})>>

s3cfb_set_polarity == Put(<<"VIDCON1">>, 1)
s3cfb_set_timing   == Put(<<"VIDTCON0">>, 1) \o Put(<<"VIDTCON1">>, 1)
s3cfb_set_lcd_size == Put(<<"VIDTCON2">>, 1)

s3cfb_set_global_interrupt(on) ==
  Modify(VIDINTCON0, IF on THEN {"INTFRM", "INT"} ELSE {}, {"INTFRM", "INT"})

s3cfb_set_vsync_interrupt(on) ==
  Modify(VIDINTCON0, IF on THEN {"VSYNC"} ELSE {}, {"VSYNC"})

-----------------------------------------------------------------------------
(* One window                                                              *)

s3cfb_window_on(w) ==
  Modify(WINCON(w), {"ENWIN"}, {}) \o Modify(WINSHMAP, {Ch(w)}, {})

(* Mutant: the channel of the window stays on.                             *)
WindowOffOnly(w) == Modify(WINCON(w), {}, {"ENWIN"})

s3cfb_window_off(w) ==
  Modify(WINCON(w), {}, {"ENWIN"}) \o Modify(WINSHMAP, {}, {Ch(w)})

(* The driver only ever uses the DMA path, so the setting is the format's; *)
(* for packed 24 bits a pixel none is left.                                *)
s3cfb_set_window_control(w) ==
  <<Load(WINCON(w)), Merge(WINCON(w), w, "format", BppMode)>>

(* The address is computed before the window is protected.                 *)
s3cfb_set_buffer_address(w) ==
  <<[do |-> "address", w |-> w]>>
  \o Modify(WINSHMAP, {Protect(w)}, {})
  \o <<[do |-> "start", reg |-> <<"VIDADDR", w>>, w |-> w]>>
  \o Modify(WINSHMAP, {}, {Protect(w)})

s3cfb_set_window_position(w) ==
  Modify(WINSHMAP, {Protect(w)}, {})
  \o Copy(<<"VIDOSD_A", w>>, w, "x") \o Copy(<<"VIDOSD_B", w>>, w, "xres")
  \o Modify(WINSHMAP, {}, {Protect(w)})

s3cfb_set_window_size(w) ==
  IF w > 2 THEN <<>> ELSE Copy(<<"VIDOSD_SIZE", w>>, w, "xres")

s3cfb_set_buffer_size(w) == Copy(<<"VIDADDR_SIZE", w>>, w, "xres")

s3cfb_set_alpha_blending(w) ==
  IF w = 0 THEN <<>>
  ELSE <<Load(WINCON(w)), Merge(WINCON(w), w, "alpha", Blends)>>
       \o Copy(<<"VIDOSD_C", w>>, w, "alpha")

s3cfb_set_chroma_key(w) ==
  IF w = 0 THEN <<>> ELSE Copy(<<"KEYCON", w>>, w, "chroma")
=============================================================================
