--------------------------- MODULE MC_WebSettings --------------------------
\* The pages that show what the server keeps of an account: its devices and
\* their forms, its sources, its gateways and their panels, its settings and its
\* reader links.
\* Each has state of its own: a behavior is about one of them.
EXTENDS DevicesView, DeviceForm, SourcesView, GatewaysView, GatewayActivity, SettingsView, ReaderCatalog, TLC
CONSTANTS d1, d2, k1, k2
TwoDevices == {d1, d2}
TwoLinks == {k1, k2}
TrimOf == [v \in {"v0", "v1", "v2", " v1"} |-> IF v = " v1" THEN "v1" ELSE v]
ModelsOf == [kindle |-> {"Paperwhite"}, kobo |-> {"Clara", "Forma"}, other |-> {"Clara"}]

VARIABLE about
vars == <<about, devVars, dfVars, srcVars, gwVars, actVars, setVars, catVars>>

\* Of the two devices one is there.
Init ==
  /\ about \in {"devices", "form", "sources", "gateways", "panels", "settings", "reader"}
  /\ DevInit /\ devServer = (d1 :> 1 @@ d2 :> 0)
  /\ about # "devices" => devList = devServer /\ ~devLink /\ devCallback = NotRead
  /\ FormInit /\ (about # "form" => dfStored = NoReader)
  /\ SrcInit  /\ (about # "sources" => DOMAIN srcRows = OpenAccess)
  /\ GwInit   /\ (about # "gateways" => gwServer = [g \in Gateways |-> [st |-> "absent", gen |-> 0]])
  /\ ActInit  /\ (about # "panels" => \A g \in ActGateways : actServer[g].st = "paired")
  /\ SetInit  /\ (about # "settings" => setServer = NotSet /\ ~setAway /\ ~setMailAway)
  /\ CatInit  /\ (about # "reader" => catServer = [l \in ReaderLinks |-> "absent"] /\ ~catAway)
Next ==
  /\ UNCHANGED about
  /\ \/ about = "devices"  /\ DevNext
        /\ UNCHANGED <<dfVars, srcVars, gwVars, actVars, setVars, catVars>>
     \/ about = "form"     /\ FormNext
        /\ UNCHANGED <<devVars, srcVars, gwVars, actVars, setVars, catVars>>
     \/ about = "sources"  /\ SrcNext
        /\ UNCHANGED <<devVars, dfVars, gwVars, actVars, setVars, catVars>>
     \/ about = "gateways" /\ GwNext
        /\ UNCHANGED <<devVars, dfVars, srcVars, actVars, setVars, catVars>>
     \/ about = "panels"   /\ ActNext
        /\ UNCHANGED <<devVars, dfVars, srcVars, gwVars, setVars, catVars>>
     \/ about = "settings" /\ SetNext
        /\ UNCHANGED <<devVars, dfVars, srcVars, gwVars, actVars, catVars>>
     \/ about = "reader"   /\ CatNext
        /\ UNCHANGED <<devVars, dfVars, srcVars, gwVars, actVars, setVars>>
Spec == Init /\ [][Next]_vars

\* The devices, the settings form and the reader links are the server's at rest,
\* a device is one that a form could mean, and the panels of the gateways page
\* are no further behind than its clock: see DevicesAreServers, SavedIsSaved,
\* LinksAreServers, DevicesAreCoherent and PanelsAreTrue.
PagesAreServers ==
  /\ about = "sources"  => SrcTypeOK
  /\ about = "gateways" => GwTypeOK
  /\ about = "devices"  => DevTypeOK /\ DevicesAreServers
  /\ about = "form"     => FormTypeOK /\ DevicesAreCoherent
  /\ about = "settings" => SetTypeOK /\ SavedIsSaved
  /\ about = "reader"   => CatTypeOK /\ LinksAreServers
  /\ about = "panels"   => ActTypeOK /\ PanelsAreTrue
=============================================================================
