SPECIFICATION Spec
CONSTANTS
    None = None
    u1 = u1
    u2 = u2
    m1 = m1
    m2 = m2
    Ids <- TwoMails
    IdOf <- OwnIds
    Pops = {p1}
    Imaps = {i1}
    Adders = {a1, a2}
    Ports <- Pop3Plain
    MayFail = TRUE
    Users <- TwoUsers
    Mails <- TwoMails
    TestEmails <- NoMails
    FirstUsers <- ImapUsers
    Folders = {"INBOX"}
SYMMETRY ArrivalSymmetry
INVARIANTS QuitDeletesMarked SelectedIsUsable StopReachesEveryListener
 
CHECK_DEADLOCK FALSE
