------------------------------ MODULE MCPages ------------------------------
(***************************************************************************)
(* One run over the machines of the pages around the chat: signing in and  *)
(* the passwords, the service worker's copies, lookups while one types,     *)
(* the group panel, the settings, what the server writes and the browser    *)
(* reads, friends and profiles, who is online, and the frame of the page.    *)
(* They share no state: the machine chosen at the start is the one that      *)
(* moves, and each of the others waits in one of its initial states.         *)
(***************************************************************************)
EXTENDS Integers, Sequences, FiniteSets

CONSTANTS Users, Guarded, MaxCalls, Names, Words,
          Keys, MaxChanges, MaxFetches, MaxDrops,
          Subjects, MaxLookups,
          Rooms, Managed, MaxPanelLoads, MaxUrls, MaxPanelActs,
          MaxImages, MaxSaves, MaxRequests, MaxUnread,
          Persons, MaxActs, MaxLoads, Chats, MaxFiles, PageSize, Base, Window, MaxZoom, Points,
          MaxFaces, MaxAsks, Views, Sizes, Gap,
          Peers, Pages, MinWidth, MaxWidth, DefaultWidth, Places, MaxListFetches

VARIABLES machine,
          session, challenge, route, auth, modal, calls, called, inStep,
          form, typed, accounts, toldOf, owner,
          cookie, cachedFor, version, told, cache, epoch, fetches, requested, messages, waiting,
          question, timer, live, spinning, held, requests, asking,
          room, perms, group, edits, roles, baseLoading, failed, baseLoads, permsAsked,
          working, actions, preview, pending, urls, revoked, started, acted, apart,
          images, freed, file, pictured, crop, touched, saving, saves, uploaded, overtaken,
          security, dialog, setup, preparing, submitting, tries, enabled, key, tried, securityKnown,
          shape, payload, taken, shown, unread, kept,
          rel, acts, loads, friends, asked, order, person, relation, busy, reloading, run,
          action, foreign,
          chat, files, server, older, first, more, mixed, zoom, pan, pull, portrait, prompt,
          user, ready, face, guest, asks, refused, link, list, guests, view, menu,
          raw, path, known, stored, home, last, mobile, drawer, place, panel, drawn, endings,
          mounted, width, saved, drag, listeners, cursor, groups, loading, listFetches, fetched

Sign == INSTANCE SignIn WITH path <- route, made <- called, mode <- form, told <- toldOf
Copies == INSTANCE ClientCache WITH user <- cachedFor, sent <- requested
Lookups == INSTANCE PageLookups
    WITH asked <- question, loading <- spinning, made <- asking, MaxRequests <- MaxLookups
Group == INSTANCE GroupPanel
    WITH loading <- baseLoading, loads <- baseLoads, asking <- permsAsked, busy <- working,
         acts <- actions, MaxLoads <- MaxPanelLoads, MaxActs <- MaxPanelActs
Own == INSTANCE Settings
    WITH shown <- pictured, sent <- uploaded, mode <- dialog, asked <- tried, known <- securityKnown
Wire == INSTANCE WireContract
Others == INSTANCE People
    WITH list <- friends, waiting <- reloading, drag <- pull, drawn <- portrait
Online == INSTANCE OnlineList WITH failed <- refused
Frame == INSTANCE Shell
    WITH fetches <- listFetches, made <- fetched, MaxFetches <- MaxListFetches

ASSUME SignInConstants == Sign!SignInAssumption
ASSUME CacheConstants == Copies!CacheAssumption
ASSUME LookupsConstants == Lookups!LookupsAssumption
ASSUME PanelConstants == Group!PanelAssumption
ASSUME SettingsConstants == Own!SettingsAssumption
ASSUME WireConstants == Wire!WireAssumption
ASSUME PeopleConstants == Others!PeopleAssumption
ASSUME OnlineConstants == Online!OnlineAssumption
ASSUME ShellConstants == Frame!ShellAssumption

signInVars == <<session, challenge, route, auth, modal, calls, called, inStep>>
accountVars == <<form, typed, accounts, toldOf, owner>>
cacheVars == <<cookie, cachedFor, version, told, cache, epoch, fetches, requested, messages, waiting>>
lookupVars == <<question, timer, live, spinning, held, requests, asking>>
groupVars == <<room, perms, group, edits, roles, baseLoading, failed, baseLoads, permsAsked,
               working, actions, preview, pending, urls, revoked, started, acted, apart>>
avatarVars == <<images, freed, file, pictured, crop, touched, saving, saves, uploaded, overtaken>>
securityVars == <<security, dialog, setup, preparing, submitting, tries, enabled, key, tried, securityKnown>>
wireVars == <<shape, payload, taken, shown, unread, kept>>
relationVars == <<rel, acts, loads, friends, asked, order, person, relation, busy, reloading,
                  run, action, foreign>>
chatVars == <<chat, files, server, older, first, more, mixed>>
zoomVars == <<zoom, pan, pull, portrait, prompt>>
onlineVars == <<user, ready, face, guest, asks, refused, link, list, guests>>
menuVars == <<view, menu>>
memoryVars == <<path, known, stored, home, last>>
frameVars == <<mobile, drawer, place, panel, drawn, endings>>
borderVars == <<mounted, width, saved, drag, listeners, cursor>>
listVars == <<groups, loading, listFetches, fetched>>
allVars == <<machine, signInVars, accountVars, cacheVars, lookupVars, groupVars, avatarVars,
             securityVars, wireVars, relationVars, chatVars, zoomVars, onlineVars, menuVars,
             raw, memoryVars, frameVars, borderVars, listVars>>

Machines == {"sign-in", "accounts", "copies", "lookups", "group", "avatar", "security", "wire",
             "friends", "profile", "files", "portrait", "online", "menu", "address", "memory",
             "frame", "border", "list"}

\* A machine that is not chosen waits in the initial state named after its Init.
MCInit ==
    /\ machine \in Machines
    /\ Sign!Init /\ (machine # "sign-in" => session = "none" /\ route = "/login")
    /\ Sign!AccountInit
    /\ Copies!Init /\ (machine # "copies" => cookie = "none")
    /\ Lookups!Init
    /\ Group!Init /\ (machine # "group" => room = CHOOSE r \in Rooms : TRUE)
    /\ Own!Init /\ (machine # "security" => ~enabled)
    /\ IF machine = "wire" THEN Wire!Init
       ELSE /\ shape = "user" /\ payload = (CHOOSE p \in Wire!Sent[shape] : TRUE)
            /\ unread = [roomIds |-> {}, counts |-> <<>>]
            /\ taken = "none" /\ shown = [name |-> "none", address |-> "none"] /\ kept = <<>>
    /\ Others!RelationInit
    /\ machine \notin {"friends", "profile"} => rel = [p \in Persons |-> "none"]
    /\ machine # "profile" => person = CHOOSE p \in Persons : TRUE
    /\ Others!ChatInit
    /\ machine # "files" => server = [c \in Chats |-> 0] /\ chat = CHOOSE c \in Chats : TRUE
    /\ Others!ZoomInit /\ Online!OnlineInit
    /\ Online!MenuInit /\ (machine # "menu" => view = CHOOSE v \in Views : TRUE)
    /\ Frame!AddressInit /\ (machine # "address" => raw = Frame!NoTarget)
    /\ Frame!MemoryInit /\ (machine # "memory" => path = "friends")
    /\ Frame!FrameInit /\ (machine # "frame" => place = "friends" /\ ~mobile)
    /\ Frame!BorderInit /\ (machine # "border" => saved = 0)
    /\ Frame!ListInit

MCNext ==
    /\ UNCHANGED <<machine, raw>>
    /\ IF machine = "sign-in" THEN Sign!Next ELSE UNCHANGED signInVars
    /\ IF machine = "accounts" THEN Sign!AccountNext ELSE UNCHANGED accountVars
    /\ IF machine = "copies" THEN Copies!Next ELSE UNCHANGED cacheVars
    /\ IF machine = "lookups" THEN Lookups!Next ELSE UNCHANGED lookupVars
    /\ IF machine = "group" THEN Group!Next ELSE UNCHANGED groupVars
    /\ IF machine = "avatar" THEN Own!AvatarNext ELSE UNCHANGED avatarVars
    /\ IF machine = "security" THEN Own!SecurityNext ELSE UNCHANGED securityVars
    /\ IF machine = "wire" THEN Wire!Next ELSE UNCHANGED wireVars
    /\ IF machine = "friends" THEN Others!FriendsNext
       ELSE IF machine = "profile" THEN Others!PanelNext ELSE UNCHANGED relationVars
    /\ IF machine = "files" THEN Others!ChatNext ELSE UNCHANGED chatVars
    /\ IF machine = "portrait" THEN Others!ZoomNext ELSE UNCHANGED zoomVars
    /\ IF machine = "online" THEN Online!OnlineNext ELSE UNCHANGED onlineVars
    /\ IF machine = "menu" THEN Online!MenuNext ELSE UNCHANGED menuVars
    /\ IF machine = "memory" THEN Frame!MemoryNext ELSE UNCHANGED memoryVars
    /\ IF machine = "frame" THEN Frame!FrameNext ELSE UNCHANGED frameVars
    /\ IF machine = "border" THEN Frame!BorderNext ELSE UNCHANGED borderVars
    /\ IF machine = "list" THEN Frame!ListNext ELSE UNCHANGED listVars

MCSpec == MCInit /\ [][MCNext]_allVars

TypesOK ==
    /\ Sign!SignInTypeOK /\ Copies!CacheTypeOK /\ Lookups!LookupsTypeOK
    /\ Group!PanelTypeOK /\ Own!SettingsTypeOK /\ Wire!WireTypeOK
    /\ Others!PeopleTypeOK /\ Online!OnlineListTypeOK /\ Frame!ShellTypeOK

\* Who is signed in, with which password and which code, and who counts as a guest.
SessionHolds ==
    /\ Sign!InStep /\ Sign!WhatWasTypedOpens
    /\ Own!CodeFitsTheKey /\ Own!SecurityIsShown
    /\ Online!GuestIsConnecting /\ Online!ListIsOfTheUser

\* What is shown answers what is asked now, however late the answers come.
AnswersAreCurrent ==
    /\ Copies!CopiesAreCurrent
    /\ Lookups!AnswersTheQuestion /\ Lookups!SpinnerIsHonest
    /\ Group!ShowsItsRoom /\ Group!SpinnerEnds
    /\ Others!MyActionIsShown /\ Others!FilesAreTheChats
    /\ Frame!ListStopsLoading

\* What the user has chosen is kept, addresses lead where they should, and what is dragged,
\* zoomed or opened is on the screen.
ChosenIsKept ==
    /\ Group!ImagesAreKept /\ Own!AvatarIsKept
    /\ Frame!AddressLeadsBack /\ Frame!LogoLeadsToTheLast
    /\ Others!PortraitIsOnScreen /\ Online!MenuIsOnScreen /\ Frame!OneDragAtATime

\* What is shown is of what is asked now, and what was chosen stays.
PagesHold == AnswersAreCurrent /\ ChosenIsKept

\* What the server writes is taken for what it is, and names are shown.
WireHolds == Wire!Understood /\ Wire!NamesAreShown

\* Steps: an action goes to the person shown, a change of address closes the drawer.
StepsHold == Others!ActsOnTheShown /\ Frame!FrameMoves
=============================================================================
