------------------------------ MODULE Settings ------------------------------
(***************************************************************************)
(* The settings of an account: the profile form with its avatar            *)
(* (widgets/settings/SettingsContent.tsx) and the two-factor section       *)
(* (SecuritySettingsSection.tsx with useSecuritySettings.ts and            *)
(* TwoFactorSetupModal.tsx).  An image is an object URL, a file to send or *)
(* both; a two-factor key is the server's until it draws the next one.     *)
(***************************************************************************)
EXTENDS Naturals, FiniteSets

CONSTANTS MaxImages,    \* images, profile saves and two-factor requests
          MaxSaves,     \* of one behaviour
          MaxRequests
SettingsAssumption ==
    MaxImages \in Nat /\ MaxSaves \in Nat /\ MaxRequests \in Nat \ {0}

VARIABLES
    images,     \* object URLs created
    freed,      \* those revoked
    file,       \* avatarFile, the image the next save sends
    shown,      \* avatarPreviewUrl
    crop,       \* cropSession
    touched,    \* the text of the form differs from the profile's
    saving,     \* the save under way
    saves,
    sent,       \* images the server has taken
    overtaken,  \* images applied while a save was under way
    security,   \* what the section shows: "unknown", "on", "off"
    mode,       \* twoFactorMode
    setup,      \* the key of twoFactorSetup
    preparing,  \* setupLoading
    submitting, \* the code the dialog shown has sent, 0 when it awaits none
    tries,      \* two-factor requests under way
    enabled, key,   \* the server's credential
    asked,
    known       \* every answer came, in the order of the server's changes
avatarVars == <<images, freed, file, shown, crop, touched, saving, saves, sent, overtaken>>
securityVars == <<security, mode, setup, preparing, submitting, tries, enabled, key, asked, known>>
settingsVars == <<avatarVars, securityVars>>

NoCrop == [source |-> "none", image |-> 0]
NoSave == [image |-> 0, text |-> FALSE, on |-> FALSE]

Init ==
    /\ images = 0 /\ freed = {} /\ file = 0 /\ shown = 0 /\ crop = NoCrop
    /\ touched = FALSE /\ saving = NoSave /\ saves = 0 /\ sent = {} /\ overtaken = {}
    /\ security = "unknown" /\ mode = "none" /\ setup = 0 /\ preparing = FALSE
    /\ submitting = 0 /\ enabled \in BOOLEAN /\ key = 0 /\ asked = 1 /\ known = TRUE
    /\ tries = {[id |-> 1, kind |-> "read", state |-> "sent", reply |-> "none"]}

-----------------------------------------------------------------------------
(* The avatar *)

Freed(shownOnce) == freed \cup (shownOnce \ {0})

PickImage ==
    /\ images < MaxImages /\ images' = images + 1
    /\ crop' = [source |-> "upload", image |-> images + 1]
    /\ freed' = IF crop.source = "upload" THEN Freed({crop.image}) ELSE freed
    /\ UNCHANGED <<file, shown, touched, saving, saves, sent, overtaken>>

\* The avatar shown is cropped again: the chosen image, or the profile's own.
CropShown ==
    /\ crop' = [source |-> "existing", image |-> shown]
    /\ UNCHANGED <<images, freed, file, shown, touched, saving, saves, sent, overtaken>>

CloseCrop ==
    /\ crop # NoCrop /\ crop' = NoCrop
    /\ freed' = IF crop.source = "upload" THEN Freed({crop.image}) ELSE freed
    /\ UNCHANGED <<images, file, shown, touched, saving, saves, sent, overtaken>>

ApplyCrop_Fault ==
    /\ crop # NoCrop /\ crop' = NoCrop
    /\ IF crop.source = "upload"
       THEN /\ file' = crop.image /\ shown' = crop.image /\ freed' = Freed({crop.image})
            /\ overtaken' = IF saving.on THEN overtaken \cup {crop.image} ELSE overtaken
       ELSE UNCHANGED <<file, shown, freed, overtaken>>
    /\ UNCHANGED <<images, touched, saving, saves, sent>>
ApplyCrop ==
    /\ crop # NoCrop /\ crop' = NoCrop
    /\ IF crop.source = "upload"
       THEN /\ file' = crop.image /\ shown' = crop.image /\ freed' = Freed({shown})
            /\ overtaken' = IF saving.on THEN overtaken \cup {crop.image} ELSE overtaken
       ELSE UNCHANGED <<file, shown, freed, overtaken>>
    /\ UNCHANGED <<images, touched, saving, saves, sent>>

Type ==
    /\ touched' = TRUE /\ ~touched
    /\ UNCHANGED <<images, freed, file, shown, crop, saving, saves, sent, overtaken>>

Save ==
    /\ ~saving.on /\ saves < MaxSaves /\ saves' = saves + 1
    /\ saving' = [image |-> file, text |-> touched, on |-> TRUE]
    /\ UNCHANGED <<images, freed, file, shown, crop, touched, sent, overtaken>>

\* A new text makes a new profile, and the reset effect drops everything of the
\* form, what was chosen during the save with it; without one the file goes and
\* its preview stays.
Saved ==
    /\ saving.on /\ saving' = NoSave
    /\ sent' = sent \cup ({saving.image} \ {0}) /\ file' = 0
    /\ IF saving.text
       THEN touched' = FALSE /\ crop' = NoCrop /\ shown' = 0 /\ freed' = Freed({shown})
       ELSE UNCHANGED <<touched, crop, shown, freed>>
    /\ UNCHANGED <<images, saves, overtaken>>

SaveFails ==
    /\ saving.on /\ saving' = NoSave
    /\ UNCHANGED <<images, freed, file, shown, crop, touched, saves, sent, overtaken>>

-----------------------------------------------------------------------------
(* Two-factor protection *)

Ask(kind) ==
    /\ asked < MaxRequests /\ asked' = asked + 1
    /\ tries' = tries \cup {[id |-> asked + 1, kind |-> kind, state |-> "sent", reply |-> "none"]}
    /\ known' = (known /\ tries = {})

OpenTwoFactor_Fault ==
    /\ IF security = "on"
       THEN /\ setup' = 0 /\ mode' = "disable"
            /\ UNCHANGED <<preparing, tries, asked, known>>
       ELSE mode' = "setup" /\ UNCHANGED <<preparing, setup>> /\ Ask("begin")
    /\ UNCHANGED <<security, submitting, enabled, key>>
OpenTwoFactor ==
    /\ ~preparing
    /\ IF security = "on"
       THEN /\ setup' = 0 /\ mode' = "disable"
            /\ UNCHANGED <<preparing, tries, asked, known>>
       ELSE mode' = "setup" /\ preparing' = TRUE /\ UNCHANGED setup /\ Ask("begin")
    /\ UNCHANGED <<security, submitting, enabled, key>>

CloseTwoFactor ==
    /\ mode # "none" /\ mode' = "none" /\ submitting' = 0
    /\ UNCHANGED <<security, setup, preparing, tries, enabled, key, asked, known>>

\* One code at a time; the dialog that is opened anew does not know of those
\* sent before.
SubmitCode ==
    /\ mode # "none" /\ ~preparing /\ submitting = 0 /\ submitting' = asked + 1
    /\ Ask(IF mode = "setup" THEN "confirm" ELSE "disable")
    /\ UNCHANGED <<security, mode, setup, preparing, enabled, key>>

\* The server: a setup draws the next key, unless protection is on; a code is
\* right or wrong.
Handled(t, right) ==
    /\ t.state = "sent"
    /\ CASE t.kind = "begin" -> enabled' = enabled /\ key' = IF enabled THEN key ELSE t.id
         [] t.kind = "confirm" /\ right /\ key # 0 -> enabled' = TRUE /\ key' = key
         [] t.kind = "disable" /\ (right \/ ~enabled) -> enabled' = FALSE /\ key' = IF enabled THEN 0 ELSE key
         [] OTHER -> UNCHANGED <<enabled, key>>
    /\ LET refused == \/ t.kind \in {"begin", "confirm"} /\ enabled
                      \/ t.kind = "confirm" /\ ~(right /\ key # 0)
                      \/ t.kind = "disable" /\ enabled /\ ~right
       IN tries' = (tries \ {t}) \cup
                   {[t EXCEPT !.state = "answered",
                              !.reply = IF refused THEN "refused"
                                        ELSE IF enabled' THEN "on" ELSE "off"]}
    /\ UNCHANGED <<security, mode, setup, preparing, submitting, asked, known>>

Arrives_Fault(t) ==
    /\ t.state = "answered" /\ t.reply # "refused" /\ tries' = tries \ {t}
    /\ CASE t.kind = "begin" -> setup' = t.id /\ preparing' = FALSE /\ UNCHANGED <<security, mode, submitting>>
         [] t.kind = "read" -> security' = t.reply /\ UNCHANGED <<mode, setup, preparing, submitting>>
         [] OTHER -> mode' = "none" /\ submitting' = 0 /\ UNCHANGED <<security, setup, preparing>>
    /\ UNCHANGED <<enabled, key, asked, known>>
Arrives(t) ==
    /\ t.state = "answered" /\ t.reply # "refused" /\ tries' = tries \ {t}
    /\ CASE t.kind = "begin" -> setup' = t.id /\ preparing' = FALSE /\ UNCHANGED <<security, mode, submitting>>
         [] t.kind = "read" -> security' = t.reply /\ UNCHANGED <<mode, setup, preparing, submitting>>
         [] OTHER -> security' = t.reply /\ mode' = "none" /\ submitting' = 0
                     /\ UNCHANGED <<setup, preparing>>
    /\ UNCHANGED <<enabled, key, asked, known>>

\* A refusal, or the loss of a request or of its answer.
TryFails(t) ==
    /\ tries' = tries \ {t}
    /\ IF t.kind = "begin" THEN mode' = "none" /\ preparing' = FALSE
       ELSE UNCHANGED <<mode, preparing>>
    /\ submitting' = IF t.kind = "begin" \/ t.id = submitting THEN 0 ELSE submitting
    /\ known' = (known /\ t.reply = "refused")
    /\ UNCHANGED <<security, setup, enabled, key, asked>>

AvatarNext ==
    PickImage \/ CropShown \/ CloseCrop \/ ApplyCrop \/ Type \/ Save \/ Saved \/ SaveFails
SecurityNext ==
    \/ OpenTwoFactor \/ CloseTwoFactor \/ SubmitCode
    \/ \E t \in tries : \E right \in BOOLEAN : Handled(t, right)
    \/ \E t \in tries : Arrives(t) \/ TryFails(t)

Next ==
    \/ AvatarNext /\ UNCHANGED securityVars
    \/ SecurityNext /\ UNCHANGED avatarVars

Spec == Init /\ [][Next]_settingsVars

-----------------------------------------------------------------------------
SettingsTypeOK ==
    /\ images \in 0..MaxImages /\ {file, shown, crop.image, saving.image} \subseteq 0..images
    /\ freed \subseteq 1..images /\ crop.source \in {"none", "upload", "existing"}
    /\ touched \in BOOLEAN /\ saves \in 0..MaxSaves
    /\ security \in {"unknown", "on", "off"} /\ mode \in {"none", "setup", "disable"}
    /\ {setup, key} \subseteq 0..asked /\ asked \in 1..MaxRequests
    /\ submitting \in 0..asked /\ preparing \in BOOLEAN /\ enabled \in BOOLEAN /\ known \in BOOLEAN

\* No image that the form or the crop dialog shows has been revoked; and the
\* image the form shows is the one the next save sends or one a save has sent,
\* unless it was applied while a save was under way: the end of that save
\* forgets the file and keeps the preview.
AvatarIsKept ==
    /\ {shown, crop.image} \cap freed = {}
    /\ shown \in {0, file} \cup sent \cup overtaken

\* The key a code is submitted for is the one the server holds, whatever dialogs were
\* closed, failed or answered late before this one; or the server holds none any more,
\* switched off by the code of a dialog closed before, and refuses every code.
CodeFitsTheKey == mode = "setup" /\ ~preparing /\ ~enabled => setup = key \/ key = 0

\* With every answer in order the section shows what the server holds.
SecurityIsShown == known /\ tries = {} => security = IF enabled THEN "on" ELSE "off"
=============================================================================
