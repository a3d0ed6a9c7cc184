SPECIFICATION PortalSpec
CONSTANTS
    Browsers = {1}
    Requests = {3, 4}
    ShortLimit = 1
    ShortTicks = 1
    CodeLimit = 1
    CodeTicks = 2
    NoticeTicks = 2
    PendingTicks = 2
    PendingTries = 3
    EnrollTicks = 1
    Backups = {1}
    TypedSteps = {0}
    MaxVisits = 3
    MaxOffice = 1
    Users = {1, 2, 3}
    Addresses = {1, 2, 3}
    UndoDays = 2
    LinkDays = 2
    MaxForms = 2
    MaxPw = 2
    MaxPasswords = 2
    MaxSide = 2
    People = {1, 2, 3}
    Staffings <- TwoStaffings
    Asks = {1, 2}
    MaxAsked = 2
    Runners = {1, 2}
    Contacts = {1, 2}
    WeekDays = 2
    MonthDays = 3
    LastDay = 4
    Offices = {1}
    Entries = {1, 2}
    MaxWrites = 3
    Staff = {1, 2}
    Mailboxes = {1, 2, 3}
    Subs = {1, 2}
    Contact = 1
    MaxEvents = 2
    MaxChanges = 3
    Readership = {1, 2}
    Darts = {1, 2}
    MaxTouched = 3
    Durations = {1, 2, 99}
    Forever = 99
    Slots = {1, 2, 3}
    LastTermDay = 4
    MaxActs = 3
    Default <- FirstSchedule
    Schedules <- OfficeSchedules
    Scans = {1, 2}
    MaxScans = 2
    MaxLost = 1
    ReminderDays = 8
    ReminderActs = 1
    Links = {1, 2}
    MaxLinks = 2
    Workers = 1
    MaxRedirects = 1
    Codes = {1}
    Customs = {11, 12}
    Names = {"a", "b"}
    NNumbers = {1}
    Flyers = {1}
    Callers = {1, 2, 3}
    MaxCalls = 4
    Providers = {"stripe", "paypal"}
    Tabs = {1, 2}
    MaxSetups = 2
    MaxRequests = 3
INVARIANTS SessionKnowsPassword GuessesBounded AddressStaysOwned RolesGuarded
           MailedOnce VerifiedAsStored MethodOfProvider NoticeToEntitled
           KeepsToItsDart  SameAnswer RemindedOnce
PROPERTIES SpentStaysSpent OlderLinksDoNothing RegisterStands
CHECK_DEADLOCK FALSE
