SPECIFICATION Spec
CONSTANTS
    Workers <- MCWorkers
    Runs <- MCRuns
    Hosts <- MCHosts
    Private <- MCPrivate
    Public = "public"
    RetryMax = 1
    Cacheable = {"h"}
    Answers = {"file", "wait"}
    URLs <- MCURLs
    HostOf <- MCHostOf
    Kind <- MCKind
    Entries <- MCEntries
    WellKnown <- MCWellKnown
    Listed <- MCListed
    Disallowed = {"h/private"}
    StartURLs <- MCStartURLs
    AllowDomains <- MCAllowDomains
    Ignored = {"h/ignored"}
    WellKnownFiles = {"h/sitemap.xml", "g/sitemap.xml", "h/sitemap_index.xml"}
    UserAgent = "tobey"
    MaxDrains = 1
    SitemapErrors = TRUE
    Visitors = {v}
    Links <- MCLinks
    Target <- MCTarget
    PageAnswers = {"html", "redirect", "busy", "refused"}
    MaxRedirects = 2
    MaxJobRetries = 1
INVARIANTS
    ErrorsHandled
CHECK_DEADLOCK FALSE
