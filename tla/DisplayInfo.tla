---------------------------- MODULE DisplayInfo ----------------------------
(***************************************************************************)
(* Display information (-i): minicap_try_get_display_info() of every       *)
(* minicap-shared/aosp/src/minicap_<sdk>.cpp, the framebuffer it falls     *)
(* back to, and the rotation main() makes of the answer.                   *)
(*                                                                         *)
(* calls holds the calls still to make; each asks SurfaceFlinger or the    *)
(* kernel anew, so that two answers need not fit together.  Sizes,         *)
(* densities and the secure flag are copied and left out.                  *)
(***************************************************************************)
EXTENDS Integers, Sequences

CONSTANTS
  SizeMax,     \* SIZE_MAX
  MaxConfigs,  \* bound: configurations of a display
  FbRotations  \* what a framebuffer driver may give as its rotation

ASSUME InfoAssumption ==
  /\ SizeMax \in Nat
  /\ MaxConfigs \in Nat /\ MaxConfigs < SizeMax
  /\ FbRotations \subseteq Nat

VARIABLES
  calls,         \* calls the query has still to make
  dpy,           \* the display whose token is held, or "none"
  configs,       \* configurations the display has: one, until a list is asked for
  info,          \* Minicap::DisplayInfo: whose it is and its orientation
  rotation,      \* main()'s int of that name
  answer         \* "none", "json" or "failure"

infoVars == <<calls, dpy, configs, info, rotation, answer>>

\* What a variable holds that nothing was assigned to.
Uninitialised == -1

NoInfo == [display |-> "none", config |-> 0, orientation |-> 0]

Info(display, config, orientation) ==
  [display |-> display, config |-> config, orientation |-> orientation]

InfoInit ==
  /\ calls = <<>> /\ dpy = "none" /\ configs = 1
  /\ info = NoInfo /\ rotation = Uninitialised /\ answer = "none"

-----------------------------------------------------------------------------
(* The queries, one for each implementation.                               *)

Info9  == <<"getDisplayInfo">>
Info14 == Info9
Info16 == Info9

\* Android 4.2 to 4.4: a display is named by a token.
Info17 == <<"getBuiltInDisplay", "getDisplayInfo">>
Info18 == Info17
Info19 == Info17

\* Android 5.0 on: it has several configurations, one of them active.
Info21 == <<"getBuiltInDisplay", "getDisplayConfigs", "getActiveConfig">>
Info22 == Info21
Info23 == Info21
Info24 == Info21
Info25 == Info21
Info26 == Info21
Info27 == Info21
Info28 == Info21

Info29 ==
  <<"getPhysicalDisplayToken", "getInternalDisplayToken",
    "getDisplayConfigs", "getActiveConfig">>

Queries ==
  {Info9, Info14, Info16, Info17, Info18, Info19, Info21, Info22, Info23,
   Info24, Info25, Info26, Info27, Info28, Info29}

\* try_get_framebuffer_display_info()
Framebuffer == <<"open", "ioctl">>

-----------------------------------------------------------------------------

Calls(name) ==
  /\ calls # <<>>
  /\ Head(calls) = name

\* if (showInfo): before SDK 17 a display goes by its number, which is at
\* hand, and not by a token.
AskForInfo ==
  /\ calls' \in Queries
  /\ dpy' = IF calls' = Info9 THEN "asked" ELSE "none"
  /\ UNCHANGED <<configs, info, rotation, answer>>

\* The composer has no answer, and the framebuffer is asked.
Composerless ==
  /\ calls' = Framebuffer
  /\ UNCHANGED <<dpy, configs, info, rotation, answer>>

Answers(i) ==
  /\ info' = i
  /\ calls' = <<"print">>
  /\ UNCHANGED <<dpy, configs, rotation, answer>>

\* A display that is not there has no token, which is not looked at.
GetToken ==
  /\ Calls("getBuiltInDisplay") \/ Calls("getPhysicalDisplayToken")
  /\ dpy' \in {"asked", "none"}
  /\ calls' = Tail(calls)
  /\ UNCHANGED <<configs, info, rotation, answer>>

\* if(!dpy): the internal display, which may not be there either
GetInternalToken ==
  /\ Calls("getInternalDisplayToken")
  /\ dpy' \in (IF dpy = "none" THEN {"internal", "none"} ELSE {dpy})
  /\ calls' = Tail(calls)
  /\ UNCHANGED <<configs, info, rotation, answer>>

GetDisplayInfo ==
  /\ Calls("getDisplayInfo")
  /\ \/ Composerless
     \/ dpy # "none" /\ \E o \in 0 .. 3 : Answers(Info(dpy, 0, o))

GetDisplayConfigs ==
  /\ Calls("getDisplayConfigs")
  /\ \/ Composerless
     \/ /\ dpy # "none"
        /\ configs' \in 0 .. MaxConfigs
        /\ calls' = Tail(calls)
        /\ UNCHANGED <<dpy, info, rotation, answer>>

\* Faulty variant: the index is compared as the int it is.
OutsideConfigs_Signed(activeConfig) == activeConfig >= configs

\* static_cast<size_t>(activeConfig) >= configs.size()
OutsideConfigs(activeConfig) == activeConfig % (SizeMax + 1) >= configs

\* The display may have changed since its configurations were listed, and an
\* error is a negative index.
GetActiveConfig ==
  /\ Calls("getActiveConfig")
  /\ \E activeConfig \in -1 .. MaxConfigs :
       IF OutsideConfigs(activeConfig)
       THEN Composerless
       ELSE \E o \in 0 .. 3 : Answers(Info(dpy, activeConfig, o))

-----------------------------------------------------------------------------
(* The framebuffer.                                                        *)

FailsWith ==
  /\ calls' = <<>>
  /\ answer' = "failure"
  /\ UNCHANGED <<dpy, configs, info, rotation>>

OpenFramebuffer ==
  /\ Calls("open")
  /\ \/ FailsWith
     \/ /\ calls' = Tail(calls)
        /\ UNCHANGED <<dpy, configs, info, rotation, answer>>

\* FBIOGET_VSCREENINFO; the rotation is stored in a uint8_t.
ReadFramebuffer ==
  /\ Calls("ioctl")
  /\ \/ FailsWith
     \/ \E rotate \in FbRotations : Answers(Info("framebuffer", 0, rotate % 256))

-----------------------------------------------------------------------------

\* switch (info.orientation), which has no default
Degrees == [o \in 0 .. 3 |-> 90 * o]

PrintInfo ==
  /\ Calls("print")
  /\ rotation' = IF info.orientation \in DOMAIN Degrees
                 THEN Degrees[info.orientation] ELSE Uninitialised
  /\ calls' = <<>>
  /\ answer' = "json"
  /\ UNCHANGED <<dpy, configs, info>>

InfoStep ==
  \/ GetToken \/ GetInternalToken \/ GetDisplayInfo \/ GetDisplayConfigs
  \/ GetActiveConfig \/ OpenFramebuffer \/ ReadFramebuffer \/ PrintInfo

-----------------------------------------------------------------------------

(* The JSON says what was found.  It comes from inside the list of          *)
(* configurations, though the active one is asked for later than the list,  *)
(* may be an error, and is only compared after a cast; and the rotation is  *)
(* that of the answer in degrees, whichever of the two sources it has: only *)
(* a framebuffer driver can give one that the switch does not know, which   *)
(* leaves the variable uninitialised.                                       *)
AnswerAsFound ==
  answer = "json" =>
    /\ info.display # "framebuffer" => info.config \in 0 .. configs - 1
    /\ \/ rotation = 90 * info.orientation
       \/ info.display = "framebuffer" /\ info.orientation \notin 0 .. 3

=============================================================================
